---- MODULE Spec2Model ----
(***************************************************************************)
(* Paper-trading engine of finwise_backend (src/main.py, src/models.py,    *)
(* src/database.py): portfolios, holdings, the transaction ledger, the     *)
(* USD/INR cache and the request handlers that change them.                *)
(*                                                                         *)
(* Numbers.  Python floats are modelled exactly: money, prices and rates   *)
(* are fixed-point integers in hundredths (paise, cents), quantities are   *)
(* whole units, and average_buy_price, the only value the code obtains by  *)
(* a division, is a reduced fraction [num, den] of hundredths.  The quotes *)
(* and rates the model draws keep every product and the 0.1% fee exact.    *)
(*                                                                         *)
(* Storage.  Every request works on its own SQLAlchemy session             *)
(* (src/database.py:13, autoflush=False): attributes read into the session *)
(* keep the value they had when they were loaded, and commit writes the    *)
(* changed attributes back as absolute values.  Requests run on a thread   *)
(* pool, so the steps of two requests interleave between a read and the    *)
(* commit that follows it.                                                 *)
(***************************************************************************)
EXTENDS Integers, Sequences, FiniteSets, TLC

\* ------------------------------------------------------------------ bounds
MaxRequests == 2
MaxLookups == 3
MaxFxClock == 4

\* --------------------------------------------------------------- constants
STARTING_CASH == 10000000
FEE_RATE_DEN == 1000
DEFAULT_USD_INR == 8750
CACHE_TTL == 60
REQUEST_TIMEOUT == 10
MARKET_OPEN_SECS == 33300
MARKET_CLOSE_SECS == 55800
DAY_SECS == 86400
HUNDRED == 100

Threads == {"t1", "t2"}
UserIds == {1, 2}
Emails == {"a@fin.in", "b@fin.in", "nobody@fin.in"}

\* users table: the rows that exist; the e-mail column is unique.
UserIdOf(email) ==
  IF email = "a@fin.in" THEN {1} ELSE IF email = "b@fin.in" THEN {2} ELSE {}

\* ------------------------------------------------------------ symbol text
\* A symbol is a sequence of one-character strings.
LOWER == <<"a","b","c","d","e","f","g","h","i","j","k","l","m",
           "n","o","p","q","r","s","t","u","v","w","x","y","z">>
UPPER == <<"A","B","C","D","E","F","G","H","I","J","K","L","M",
           "N","O","P","Q","R","S","T","U","V","W","X","Y","Z">>

\* the upper-case form of each lower-case letter
UpperTable ==
  [c \in {LOWER[i] : i \in 1..26} |-> UPPER[CHOOSE i \in 1..26 : LOWER[i] = c]]

UpperChar(c) == IF c \in DOMAIN UpperTable THEN UpperTable[c] ELSE c

\* str.upper()
Upper(s) == [i \in 1..Len(s) |-> UpperChar(s[i])]

\* str.strip(): drop leading and trailing blanks
RECURSIVE LStrip(_)
LStrip(s) == IF s # <<>> /\ Head(s) = " " THEN LStrip(Tail(s)) ELSE s

RECURSIVE RStrip(_)
RStrip(s) ==
  IF s # <<>> /\ s[Len(s)] = " " THEN RStrip(SubSeq(s, 1, Len(s) - 1)) ELSE s

Strip(s) == RStrip(LStrip(s))

\* variant: the symbol is stripped and its case is kept
NormaliseSymbol_CaseKept(s) == Strip(s)

\* "symbol.upper().strip()"
NormaliseSymbol(s) == Strip(Upper(s))

\* str.endswith(suf)
EndsWith(s, suf) ==
  /\ Len(s) >= Len(suf)
  /\ SubSeq(s, Len(s) - Len(suf) + 1, Len(s)) = suf

\* "sub in s"
Contains(s, sub) ==
  \E i \in 1..(Len(s) - Len(sub) + 1) : SubSeq(s, i, i + Len(sub) - 1) = sub

SUF_NS == <<".","N","S">>
SUF_BO == <<".","B","O">>
MARK_USD == <<"-","U","S","D">>
MARK_INR == <<"-","I","N","R">>

TCS_NS == <<"T","C","S",".","N","S">>
BTC_INR == <<"B","T","C","-","I","N","R">>
AAPL == <<"A","A","P","L">>
INFY_BO == <<"i","n","f","y",".","b","o">>
AAPL_LOWER == <<"a","a","p","l">>
AAPL_PADDED == <<" ","A","a","p","L"," ">>
XINR_NS == <<"X","-","I","N","R",".","N","S">>

\* ------------------------------------------------------------------- time
\* now is the wall clock in seconds since Monday 00:00:00 IST.
TimeSamples == << 33299, 33300, 33359, 33360, 55800, 55801, 5 * 86400 + 36000 >>

Weekday(n) == (n \div DAY_SECS) % 7
TimeOfDay(n) == n % DAY_SECS
Today(n) == n \div DAY_SECS

\* variant: the close instant is excluded from the window
is_market_open_CloseExcluded(symbol, n) ==
  LET symbol_upper == Upper(symbol) IN
  IF Contains(symbol_upper, MARK_USD) \/ Contains(symbol_upper, MARK_INR)
  THEN TRUE
  ELSE IF EndsWith(symbol_upper, SUF_NS) \/ EndsWith(symbol_upper, SUF_BO)
  THEN IF Weekday(n) >= 5
       THEN FALSE
       ELSE MARKET_OPEN_SECS <= TimeOfDay(n) /\ TimeOfDay(n) < MARKET_CLOSE_SECS
  ELSE TRUE

\* is_market_open, with datetime.now(ist) passed in
is_market_open(symbol, n) ==
  LET symbol_upper == Upper(symbol) IN
  IF Contains(symbol_upper, MARK_USD) \/ Contains(symbol_upper, MARK_INR)
  THEN TRUE
  ELSE IF EndsWith(symbol_upper, SUF_NS) \/ EndsWith(symbol_upper, SUF_BO)
  THEN IF Weekday(n) >= 5
       THEN FALSE
       ELSE MARKET_OPEN_SECS <= TimeOfDay(n) /\ TimeOfDay(n) <= MARKET_CLOSE_SECS
  ELSE TRUE

is_us_stock(symbol) ==
  LET symbol_upper == Upper(symbol) IN
  IF EndsWith(symbol_upper, SUF_NS) \/ EndsWith(symbol_upper, SUF_BO)
  THEN FALSE
  ELSE IF Contains(symbol_upper, MARK_USD) \/ Contains(symbol_upper, MARK_INR)
  THEN FALSE
  ELSE TRUE

\* -------------------------------------------------------------- fractions
RECURSIVE Gcd(_, _)
Gcd(a, b) == IF b = 0 THEN a ELSE Gcd(b, a % b)

Abs(x) == IF x < 0 THEN -x ELSE x

\* the fraction n/d (d > 0) in lowest terms
Frac(n, d) ==
  LET g == Gcd(Abs(n), d) IN
  IF g = 0 THEN [num |-> 0, den |-> 1] ELSE [num |-> n \div g, den |-> d \div g]

FracOfInt(n) == [num |-> n, den |-> 1]

\* value of the fraction times a whole number, as a fraction
FracTimes(f, k) == Frac(f.num * k, f.den)

FracPlus(f, g) == Frac(f.num * g.den + g.num * f.den, f.den * g.den)

\* f / k for a whole number k > 0
FracOver(f, k) == Frac(f.num, f.den * k)

FracMinus(f, g) == Frac(f.num * g.den - g.num * f.den, f.den * g.den)

\* f / g for a fraction g > 0
FracRatio(f, g) == Frac(f.num * g.den, f.den * g.num)

\* round(x, 2) of an amount x in hundredths: the nearest whole number of
\* hundredths, a tie going to the even one
Round2(f) ==
  LET q == f.num \div f.den
      r == f.num - q * f.den
  IN IF 2 * r < f.den THEN q
     ELSE IF 2 * r > f.den THEN q + 1
     ELSE IF q % 2 = 0 THEN q ELSE q + 1

RECURSIVE FracSum(_)
FracSum(fs) ==
  IF fs = <<>> THEN FracOfInt(0) ELSE FracPlus(Head(fs), FracSum(Tail(fs)))

\* ------------------------------------------------------------------ state
VARIABLES
  clock,             \* index of the current instant in TimeSamples
  portfolios,        \* rows of table portfolios
  holdings,          \* rows of table holdings
  transactions,      \* rows of table transactions, in insertion order
  users,             \* streak and xp columns of table users, by user id
  user_achievements, \* rows of table user_achievements, as <<user id, key>>
  usd_inr_cache,     \* the module-level _usd_inr_cache
  pc,                \* where each request thread stands in its handler
  req,               \* the request each thread is serving
  sess,              \* the objects loaded into each thread's session
  resp,              \* the response each thread sent last
  pre,               \* history: the user's stored rows when the request arrived
  interf,            \* history: another request committed since it arrived
  n_executed,        \* history: orders answered as executed, by user id
  nreq,              \* requests accepted so far
  fx_log,            \* history: the calls of get_usd_to_inr_rate, as they returned
  accounts,          \* the password column of table users, by e-mail
  steps              \* history: the steps of each thread's order, as they ran

vars == << clock, portfolios, holdings, transactions, users, user_achievements,
           usd_inr_cache, pc, req, sess, resp, pre, interf, n_executed, nreq,
           fx_log, accounts, steps >>

db == << portfolios, holdings, transactions >>

Now == TimeSamples[clock]

\* Python None, for the columns and fields that hold a number otherwise
NONE == -1

\* Optional values a query or a lookup returns: {} is None, {x} is x.
\* .first(): the row with the lowest rowid
First(rows) ==
  IF rows = {} THEN {} ELSE {CHOOSE r \in rows : \A o \in rows : r.id <= o.id}

\* rowid of an inserted row: INTEGER PRIMARY KEY without AUTOINCREMENT
NextId(rows) ==
  IF rows = {} THEN 1
  ELSE 1 + (CHOOSE m \in {r.id : r \in rows} : \A r \in rows : r.id <= m)

PortfolioOf(u) == First({p \in portfolios : p.user_id = u})

HoldingsOf(pid) == {h \in holdings : h.portfolio_id = pid}

LedgerOf(u) == SelectSeq(transactions, LAMBDA x : x.user_id = u)

\* what is stored for user u: the rows the properties compare before and after
Snapshot(u) ==
  LET ps == {p \in portfolios : p.user_id = u} IN
  [ portfolios |-> ps,
    holdings |-> {h \in holdings : \E p \in ps : h.portfolio_id = p.id},
    ledger |-> LedgerOf(u) ]

NoSnapshot == [portfolios |-> {}, holdings |-> {}, ledger |-> <<>>]

\* n_req, started, after: the request's number, the instant its exchange-rate
\* call began and the number of calls that had returned by then, while the
\* call is under way
NoSess ==
  [ user |-> 0, portfolio_id |-> 0, cash_loaded |-> 0, cash |-> 0, holding |-> {},
    raw_price |-> 0, usd_rate |-> NONE, price_inr |-> 0, trade_value |-> 0,
    brokerage_fee |-> 0, total |-> 0, checked_at |-> NONE,
    n_req |-> 0, started |-> NONE, after |-> 0 ]

\* symbol_in: the symbol as the client wrote it; symbol: as the handler uses it
NoReq ==
  [ kind |-> "none", email |-> "", symbol_in |-> <<>>, symbol |-> <<>>,
    quantity |-> 0, password |-> "" ]

\* raw_price and usd_rate: the quote and the rate an executed order used;
\* at: the instant the response was sent; checked_at: the instant an executed
\* order consulted the market calendar; holdings, virtual_cash,
\* total_holdings_value, total_portfolio_value: the fields of a portfolio
\* summary; market and order are history: what the summary's price lookups
\* returned, by symbol, and the order in which they completed; history: the
\* TransactionResponse list of a transaction history
NoResp ==
  [ code |-> 0, detail |-> "none", raw_price |-> NONE, usd_rate |-> NONE,
    at |-> NONE, checked_at |-> NONE, holdings |-> {}, virtual_cash |-> NONE,
    total_holdings_value |-> NONE, total_portfolio_value |-> NONE,
    market |-> <<>>, order |-> <<>>, history |-> <<>> ]

\* the response that ends a request without an execution; the request's
\* session is closed
Reply(t, code, detail) ==
  /\ resp' = [resp EXCEPT ![t] =
       [NoResp EXCEPT !.code = code, !.detail = detail, !.at = Now]]
  /\ pc' = [pc EXCEPT ![t] = "idle"]
  /\ sess' = [sess EXCEPT ![t] = NoSess]
  /\ UNCHANGED n_executed

\* TradeExecutionResponse / SellExecutionResponse: the order was executed
ReplyExecuted(t, u, raw_price, usd_rate) ==
  /\ resp' = [resp EXCEPT ![t] =
       [NoResp EXCEPT !.code = 200, !.detail = "executed",
                      !.raw_price = raw_price, !.usd_rate = usd_rate,
                      !.at = Now, !.checked_at = sess[t].checked_at]]
  /\ pc' = [pc EXCEPT ![t] = "idle"]
  /\ sess' = [sess EXCEPT ![t] = NoSess]
  /\ n_executed' = [n_executed EXCEPT ![u] = @ + 1]

\* thread t has run the steps named, one after the other, at this instant
Ran(t, names) ==
  steps' = [steps EXCEPT ![t] =
     @ \o [i \in 1..Len(names) |-> [step |-> names[i], at |-> Now]]]

\* thread t begins an order with the steps named
Began(t, names) ==
  steps' = [steps EXCEPT ![t] =
     [i \in 1..Len(names) |-> [step |-> names[i], at |-> Now]]]

\* a request arrives at thread t
Accept(t, kind, email, symbol_in, quantity) ==
  /\ pc[t] = "idle"
  /\ nreq < MaxRequests
  /\ nreq' = nreq + 1
  /\ req' = [req EXCEPT ![t] =
       [NoReq EXCEPT !.kind = kind, !.email = email, !.symbol_in = symbol_in,
                     !.symbol = NormaliseSymbol(symbol_in),
                     !.quantity = quantity]]
  /\ pre' = [pre EXCEPT ![t] =
       IF UserIdOf(email) = {} THEN NoSnapshot
       ELSE Snapshot(CHOOSE u \in UserIdOf(email) : TRUE)]
  /\ interf' = [interf EXCEPT ![t] = FALSE]

\* ... and has run none of an order's steps
Arrive(t, kind, email, symbol_in, quantity) ==
  /\ Accept(t, kind, email, symbol_in, quantity)
  /\ Began(t, <<>>)

\* thread t committed a change to the stored rows
Committed(t) == interf' = [o \in Threads |-> IF o = t THEN interf[o] ELSE TRUE]

\* ------------------------------------------------------- currency, fees
BROKERAGE_FEE_RATE_PER_MILLE == 1

\* variant: a fee of 1% instead of 0.1%
BrokerageFee_OnePercent(trade_value) == trade_value \div HUNDRED

\* trade_value * BROKERAGE_FEE_RATE
BrokerageFee(trade_value) ==
  (trade_value * BROKERAGE_FEE_RATE_PER_MILLE) \div FEE_RATE_DEN

\* raw_price * usd_rate, both in hundredths
ConvertToInr(raw_price, usd_rate) == (raw_price \div HUNDRED) * usd_rate

\* get_usd_to_inr_rate: cache is _usd_inr_cache, n is utcnow(), ext is what
\* the exchange-rate API answers when it is called: {rate} for a 200 with
\* "result": "success", {} for a timeout, an error or any other answer.
\* Yields the rate returned, the cache left behind and where the rate came
\* from: "cached", "live" (the API's answer) or "fallback".
\* variant: the cached rate also serves at the age of exactly one minute
CacheFresh_Inclusive(cache, n) ==
  cache.timestamp # NONE /\ n - cache.timestamp <= CACHE_TTL

\* "cache_age < timedelta(minutes=1)" on a cache that has a timestamp
CacheFresh(cache, n) ==
  cache.timestamp # NONE /\ n - cache.timestamp < CACHE_TTL

\* variant: after a failed call the default rate is returned, not the cached one
FxAnswered_DefaultOnFailure(cache, n, ext) ==
  IF ext # {}
  THEN LET rate == CHOOSE r \in ext : TRUE IN
       [ rate |-> rate, cache |-> [rate |-> rate, timestamp |-> n],
         source |-> "live" ]
  ELSE [rate |-> DEFAULT_USD_INR, cache |-> cache, source |-> "fallback"]

\* variant: a failed call stamps the cache
FxAnswered_StampOnFailure(cache, n, ext) ==
  IF ext # {}
  THEN LET rate == CHOOSE r \in ext : TRUE IN
       [ rate |-> rate, cache |-> [rate |-> rate, timestamp |-> n],
         source |-> "live" ]
  ELSE [rate |-> cache.rate, cache |-> [cache EXCEPT !.timestamp = n],
        source |-> "fallback"]

\* the part after requests.get has returned or raised, at instant n
FxAnswered(cache, n, ext) ==
  IF ext # {}
  THEN LET rate == CHOOSE r \in ext : TRUE IN
       [ rate |-> rate, cache |-> [rate |-> rate, timestamp |-> n],
         source |-> "live" ]
  ELSE [rate |-> cache.rate, cache |-> cache, source |-> "fallback"]

get_usd_to_inr_rate(cache, n, ext) ==
  IF CacheFresh(cache, n)
  THEN [rate |-> cache.rate, cache |-> cache, source |-> "cached"]
  ELSE FxAnswered(cache, n, ext)

\* the entry of fx_log for a call made for request number n_req, which
\* began at instant started, when after calls had returned, and returns fx now
FxEntry(n_req, started, after, fx) ==
  [ n_req |-> n_req, started |-> started, after |-> after, at |-> Now,
    rate |-> fx.rate, source |-> fx.source ]

\* Steps 3 and 4 of both order handlers: conversion, then value and fee.
\* Yields the fields of the session they set and the cache they leave.
Priced(symbol, quantity, raw_price, ext) ==
  LET is_usd == is_us_stock(symbol)
      fx == get_usd_to_inr_rate(usd_inr_cache, Now, ext)
      price_inr == IF is_usd THEN ConvertToInr(raw_price, fx.rate) ELSE raw_price
      trade_value == price_inr * quantity
  IN [ usd_rate |-> IF is_usd THEN fx.rate ELSE NONE,
       price_inr |-> price_inr,
       trade_value |-> trade_value,
       brokerage_fee |-> BrokerageFee(trade_value),
       cache |-> IF is_usd THEN fx.cache ELSE usd_inr_cache,
       log |-> IF is_usd
               THEN Append(fx_log, FxEntry(nreq, Now, Len(fx_log), fx))
               ELSE fx_log ]

\* --------------------------------------------------------- gamification
ACHIEVEMENTS == {"first_expense", "first_trade", "week_streak", "month_streak",
                 "budget_master", "diversifier"}

XpReward(key) ==
  CASE key = "first_expense" -> 25
    [] key = "first_trade" -> 50
    [] key = "week_streak" -> 100
    [] key = "month_streak" -> 500
    [] key = "budget_master" -> 200
    [] key = "diversifier" -> 75

\* update_user_streak: the user row it commits
update_user_streak(row, today) ==
  [ row EXCEPT
      !.current_streak =
        IF row.last_activity_date = NONE THEN 1
        ELSE IF row.last_activity_date = today THEN row.current_streak
        ELSE IF row.last_activity_date = today - 1 THEN row.current_streak + 1
        ELSE 1,
      !.last_activity_date = today ]

\* the achievements execute_buy_order asks for after its commit
BuyAchievements(total_trades, had_holding, current_streak) ==
  (IF total_trades = 1 /\ ~had_holding THEN {"first_trade"} ELSE {})
  \cup (IF total_trades >= 5 THEN {"diversifier"} ELSE {})
  \cup (IF current_streak >= 7 THEN {"week_streak"} ELSE {})
  \cup (IF current_streak >= 30 THEN {"month_streak"} ELSE {})

\* check_and_award_achievement for each key asked for: rows and xp it adds
RECURSIVE SumXp(_)
SumXp(keys) ==
  IF keys = {} THEN 0
  ELSE LET k == CHOOSE x \in keys : TRUE IN XpReward(k) + SumXp(keys \ {k})

NewlyAwarded(u, keys) ==
  {k \in keys : k \in ACHIEVEMENTS /\ <<u, k>> \notin user_achievements}

\* ---------------------------------------------------- get_or_create_portfolio
\* First half: "if user.portfolio: return user.portfolio".  The portfolio row
\* is loaded into the session here; a user without one goes on to the insert.
ResolvePortfolio(t, u, found, missing) ==
  LET p == PortfolioOf(u) IN
  IF p # {}
  THEN LET row == CHOOSE x \in p : TRUE IN
       /\ sess' = [sess EXCEPT ![t] =
            [NoSess EXCEPT !.user = u, !.portfolio_id = row.id,
                           !.cash_loaded = row.virtual_cash,
                           !.cash = row.virtual_cash]]
       /\ pc' = [pc EXCEPT ![t] = found]
  ELSE /\ sess' = [sess EXCEPT ![t] = [NoSess EXCEPT !.user = u]]
       /\ pc' = [pc EXCEPT ![t] = missing]

\* variant: the column carries no unique constraint
UserIdTaken_Never(u) == FALSE

\* "user_id = Column(..., unique=True)": a row for the user exists
UserIdTaken(u) == \E p \in portfolios : p.user_id = u

\* Second half: db.add(new_portfolio); db.commit(); db.refresh(new_portfolio).
\* portfolios.user_id is unique: the insert of a second row for the user
\* raises IntegrityError, which no handler catches.
CreatePortfolio(t, at, next) ==
  /\ pc[t] = at
  /\ LET u == sess[t].user IN
     IF UserIdTaken(u)
     THEN /\ Reply(t, 500, "integrity_error")
          /\ UNCHANGED << portfolios, interf >>
     ELSE LET id == NextId(portfolios) IN
          /\ portfolios' = portfolios \cup
               {[id |-> id, user_id |-> u, virtual_cash |-> STARTING_CASH]}
          /\ sess' = [sess EXCEPT ![t] =
               [@ EXCEPT !.portfolio_id = id, !.cash_loaded = STARTING_CASH,
                         !.cash = STARTING_CASH]]
          /\ pc' = [pc EXCEPT ![t] = next]
          /\ Committed(t)
          /\ UNCHANGED << resp, n_executed >>
  /\ UNCHANGED << clock, accounts, steps, fx_log, holdings, transactions, users, user_achievements,
                  usd_inr_cache, req, pre, nreq >>

\* ------------------------------------------------------------ flush/commit
\* UPDATE portfolios SET virtual_cash: emitted only when the attribute differs
\* from the value that was loaded.
FlushCash(t) ==
  IF sess[t].cash = sess[t].cash_loaded THEN portfolios
  ELSE {IF p.id = sess[t].portfolio_id
        THEN [p EXCEPT !.virtual_cash = sess[t].cash] ELSE p : p \in portfolios}

\* UPDATE holdings SET quantity, average_buy_price WHERE id = h.id, again
\* only the attributes that differ from the loaded ones.
FlushHolding(h, quantity, average) ==
  {IF r.id = h.id
   THEN [r EXCEPT !.quantity = quantity,
                  !.average_buy_price =
                     IF average = h.average_buy_price THEN @ ELSE average]
   ELSE r : r \in holdings}

\* the row an UPDATE addresses is gone: StaleDataError
Stale(h) == ~ \E r \in holdings : r.id = h.id

Transaction(t, type) ==
  [ user_id |-> sess[t].user, symbol |-> req[t].symbol, type |-> type,
    quantity |-> req[t].quantity, price_per_share |-> sess[t].price_inr,
    total_amount |-> sess[t].trade_value,
    brokerage_fee |-> sess[t].brokerage_fee, timestamp |-> Now ]

\* --------------------------------------------------------- execute_buy_order
\* TradeRequest validation, the user query and get_or_create_portfolio's read
BuyBegin(t, email, asset_symbol, quantity) ==
  /\ Arrive(t, "buy", email, asset_symbol, quantity)
  /\ IF quantity <= 0
     THEN Reply(t, 422, "validation")
     ELSE IF UserIdOf(email) = {}
     THEN Reply(t, 404, "user_not_found")
     ELSE /\ ResolvePortfolio(t, CHOOSE u \in UserIdOf(email) : TRUE,
                              "buy_quote", "buy_create")
          /\ UNCHANGED << resp, n_executed >>
  /\ UNCHANGED << clock, accounts, fx_log, portfolios, holdings, transactions, users,
                  user_achievements, usd_inr_cache >>

BuyCreatePortfolio(t) == CreatePortfolio(t, "buy_create", "buy_quote")

\* variant: the handlers do not consult the calendar
MarketClosed_Never(symbol, n) == FALSE

\* "if not is_market_open(symbol): raise HTTPException(status_code=400, ...)"
MarketClosed(symbol, n) == ~ is_market_open(symbol, n)

\* variant: the cost is compared with the starting balance, not the current one
InsufficientFunds_StartingBalance(total_cost, virtual_cash) ==
  total_cost > STARTING_CASH

\* "total_cost > portfolio.virtual_cash"
InsufficientFunds(total_cost, virtual_cash) == total_cost > virtual_cash

\* variant: the plain mean of the old average and the new price
WeightedAverage_Unweighted(old_quantity, old_average, quantity, price_inr) ==
  FracOver(FracPlus(old_average, FracOfInt(price_inr)), 2)

\* the weighted average of step 6
WeightedAverage(old_quantity, old_average, quantity, price_inr) ==
  LET old_value == FracTimes(old_average, old_quantity)
      new_value == FracOfInt(quantity * price_inr)
      new_total_quantity == old_quantity + quantity
  IN FracOver(FracPlus(old_value, new_value), new_total_quantity)

\* Steps 1 to 5 and the first half of step 6: market hours, the quote, the
\* conversion, the fee, the funds check, the debit on the session's portfolio
\* object and the query for the existing holding.
BuyQuote(t, quote, ext) ==
  /\ pc[t] = "buy_quote"
  /\ LET symbol == req[t].symbol
         quantity == req[t].quantity
     IN
     IF MarketClosed(symbol, Now)
     THEN /\ Reply(t, 400, "market_closed")
          /\ Ran(t, << "calendar" >>)
          /\ UNCHANGED << usd_inr_cache, fx_log >>
     ELSE IF quote = {}
     THEN /\ Reply(t, 400, "price_unavailable")
          /\ Ran(t, << "calendar", "quote" >>)
          /\ UNCHANGED << usd_inr_cache, fx_log >>
     ELSE LET raw_price == CHOOSE x \in quote : TRUE IN
       IF raw_price <= 0
       THEN /\ Reply(t, 400, "invalid_price")
            /\ Ran(t, << "calendar", "quote" >>)
            /\ UNCHANGED << usd_inr_cache, fx_log >>
       ELSE LET pr == Priced(symbol, quantity, raw_price, ext)
                total_cost == pr.trade_value + pr.brokerage_fee
                filled == [sess[t] EXCEPT !.raw_price = raw_price,
                             !.usd_rate = pr.usd_rate, !.price_inr = pr.price_inr,
                             !.trade_value = pr.trade_value,
                             !.brokerage_fee = pr.brokerage_fee,
                             !.total = total_cost, !.checked_at = Now]
            IN
            /\ usd_inr_cache' = pr.cache
            /\ fx_log' = pr.log
            /\ Ran(t, << "calendar", "quote", "conversion", "check" >>)
            /\ IF InsufficientFunds(total_cost, sess[t].cash)
               THEN Reply(t, 400, "insufficient_funds")
               ELSE /\ sess' = [sess EXCEPT ![t] =
                         [filled EXCEPT
                            !.cash = @ - total_cost,
                            !.holding = First({h \in holdings :
                               /\ h.portfolio_id = sess[t].portfolio_id
                               /\ h.asset_symbol = symbol})]]
                    /\ pc' = [pc EXCEPT ![t] = "buy_commit"]
                    /\ UNCHANGED << resp, n_executed >>
  /\ UNCHANGED << clock, accounts, portfolios, holdings, transactions, users,
                  user_achievements, req, pre, interf, nreq >>

\* the holding the buy stores: the row it updates or the row it inserts
BoughtHolding(t) ==
  IF sess[t].holding # {}
  THEN LET h == CHOOSE x \in sess[t].holding : TRUE IN
       [ quantity |-> h.quantity + req[t].quantity,
         average |-> WeightedAverage(h.quantity, h.average_buy_price,
                                     req[t].quantity, sess[t].price_inr) ]
  ELSE [ quantity |-> req[t].quantity, average |-> FracOfInt(sess[t].price_inr) ]

\* Rest of step 6 and step 7: the holding, the Transaction row, db.commit().
\* fault: the flush or the commit raises (the database refuses the write).
BuyCommit(t, fault) ==
  /\ pc[t] = "buy_commit"
  /\ Ran(t, << "commit" >>)
  /\ LET new == BoughtHolding(t) IN
     IF fault \/ (sess[t].holding # {} /\ Stale(CHOOSE x \in sess[t].holding : TRUE))
     THEN /\ Reply(t, 500, "trade_failed")
          /\ UNCHANGED << portfolios, holdings, transactions, interf >>
     ELSE /\ portfolios' = FlushCash(t)
          /\ holdings' =
               IF sess[t].holding # {}
               THEN FlushHolding(CHOOSE x \in sess[t].holding : TRUE,
                                 new.quantity, new.average)
               ELSE holdings \cup
                    {[ id |-> NextId(holdings),
                       portfolio_id |-> sess[t].portfolio_id,
                       asset_symbol |-> req[t].symbol,
                       quantity |-> new.quantity,
                       average_buy_price |-> new.average ]}
          /\ transactions' = Append(transactions, Transaction(t, "BUY"))
          /\ Committed(t)
          /\ pc' = [pc EXCEPT ![t] = "buy_post"]
          /\ UNCHANGED << resp, sess, n_executed >>
  /\ UNCHANGED << clock, accounts, fx_log, users, user_achievements, usd_inr_cache, req,
                  pre, nreq >>

\* After the commit, still inside the try block: update_user_streak and the
\* achievement checks, each with a commit of its own, then the response.
\* fault: "streak" - update_user_streak raises; "award" - a later statement
\* raises after the streak was committed; "none" - nothing raises.
BuyPost(t, fault) ==
  /\ pc[t] = "buy_post"
  /\ LET u == sess[t].user
         streaked == update_user_streak(users[u], Today(Now))
         total_trades == Cardinality(HoldingsOf(sess[t].portfolio_id))
         keys == NewlyAwarded(u, BuyAchievements(total_trades,
                    sess[t].holding # {}, streaked.current_streak))
     IN
     CASE fault = "streak" ->
            /\ Reply(t, 500, "trade_failed")
            /\ UNCHANGED << users, user_achievements >>
       [] fault = "award" ->
            /\ Reply(t, 500, "trade_failed")
            /\ users' = [users EXCEPT ![u] = streaked]
            /\ UNCHANGED user_achievements
       [] OTHER ->
            /\ ReplyExecuted(t, u, sess[t].raw_price, sess[t].usd_rate)
            /\ users' = [users EXCEPT ![u] = [streaked EXCEPT !.xp = @ + SumXp(keys)]]
            /\ user_achievements' = user_achievements \cup {<<u, k>> : k \in keys}
  /\ UNCHANGED << clock, accounts, steps, fx_log, portfolios, holdings, transactions, usd_inr_cache,
                  req, pre, interf, nreq >>

\* ------------------------------------------------------------------ sell_asset
\* SellRequest validation, the user and portfolio lookups, market hours, the
\* holding query and the quantity check.
SellBegin(t, email, symbol_in, quantity) ==
  /\ Accept(t, "sell", email, symbol_in, quantity)
  /\ LET symbol == NormaliseSymbol(symbol_in) IN
     IF quantity <= 0
     THEN Reply(t, 422, "validation") /\ Began(t, <<>>)
     ELSE IF UserIdOf(email) = {}
     THEN Reply(t, 404, "user_not_found") /\ Began(t, <<>>)
     ELSE LET u == CHOOSE x \in UserIdOf(email) : TRUE
              p == PortfolioOf(u)
          IN
       IF p = {}
       THEN Reply(t, 400, "no_portfolio") /\ Began(t, <<>>)
       ELSE LET row == CHOOSE x \in p : TRUE
                holding == First({h \in holdings :
                              h.portfolio_id = row.id /\ h.asset_symbol = symbol})
            IN
         IF MarketClosed(symbol, Now)
         THEN Reply(t, 400, "market_closed") /\ Began(t, << "calendar" >>)
         ELSE IF holding = {}
         THEN Reply(t, 400, "no_holding") /\ Began(t, << "calendar", "check" >>)
         ELSE IF (CHOOSE h \in holding : TRUE).quantity < quantity
         THEN /\ Reply(t, 400, "insufficient_holdings")
              /\ Began(t, << "calendar", "check" >>)
         ELSE /\ sess' = [sess EXCEPT ![t] =
                   [NoSess EXCEPT !.user = u, !.portfolio_id = row.id,
                                  !.cash_loaded = row.virtual_cash,
                                  !.cash = row.virtual_cash,
                                  !.holding = holding, !.checked_at = Now]]
              /\ pc' = [pc EXCEPT ![t] = "sell_quote"]
              /\ Began(t, << "calendar", "check" >>)
              /\ UNCHANGED << resp, n_executed >>
  /\ UNCHANGED << clock, accounts, fx_log, portfolios, holdings, transactions, users,
                  user_achievements, usd_inr_cache >>

\* variant: the comparison is written with < instead of ==
SellsAll_LessThan(held, quantity) == held < quantity

\* "holding.quantity == quantity": the sale closes the position
SellsAll(held, quantity) == held = quantity

\* variant: the fee is added to the proceeds
NetProceeds_FeeAdded(gross_proceeds, brokerage_fee) ==
  gross_proceeds + brokerage_fee

\* "net_proceeds = gross_proceeds - brokerage_fee"
NetProceeds(gross_proceeds, brokerage_fee) == gross_proceeds - brokerage_fee

\* variant: the holding keeps its whole quantity
RemainingQuantity_Kept(held, quantity) == held

\* "holding.quantity -= quantity"
RemainingQuantity(held, quantity) == held - quantity

\* The quote, the conversion, and the try block: proceeds, the credit, the
\* holding's update or delete, the Transaction row and db.commit().
\* fault: the flush or the commit raises.
SellQuote(t, quote, ext, fault) ==
  /\ pc[t] = "sell_quote"
  /\ IF quote = {}
     THEN /\ Reply(t, 503, "price_unavailable")
          /\ Ran(t, << "quote" >>)
          /\ UNCHANGED << usd_inr_cache, fx_log, portfolios, holdings,
                          transactions, interf >>
     ELSE LET raw_price == CHOOSE x \in quote : TRUE
              quantity == req[t].quantity
              h == CHOOSE x \in sess[t].holding : TRUE
              pr == Priced(req[t].symbol, quantity, raw_price, ext)
              net_proceeds == NetProceeds(pr.trade_value, pr.brokerage_fee)
              filled == [sess[t] EXCEPT !.raw_price = raw_price,
                           !.usd_rate = pr.usd_rate, !.price_inr = pr.price_inr,
                           !.trade_value = pr.trade_value,
                           !.brokerage_fee = pr.brokerage_fee,
                           !.total = net_proceeds,
                           !.cash = @ + net_proceeds]
          IN
          /\ usd_inr_cache' = pr.cache
          /\ fx_log' = pr.log
          /\ Ran(t, << "quote", "conversion", "commit" >>)
          /\ IF fault \/ (~ SellsAll(h.quantity, quantity) /\ Stale(h))
             THEN /\ Reply(t, 500, "sell_failed")
                  /\ UNCHANGED << portfolios, holdings, transactions, interf >>
             ELSE /\ portfolios' =
                       IF filled.cash = filled.cash_loaded THEN portfolios
                       ELSE {IF p.id = filled.portfolio_id
                             THEN [p EXCEPT !.virtual_cash = filled.cash]
                             ELSE p : p \in portfolios}
                  /\ holdings' =
                       IF SellsAll(h.quantity, quantity)
                       THEN {r \in holdings : r.id # h.id}
                       ELSE FlushHolding(h, RemainingQuantity(h.quantity, quantity),
                                         h.average_buy_price)
                  /\ transactions' = Append(transactions,
                       [ user_id |-> filled.user, symbol |-> req[t].symbol,
                         type |-> "SELL", quantity |-> quantity,
                         price_per_share |-> filled.price_inr,
                         total_amount |-> filled.trade_value,
                         brokerage_fee |-> filled.brokerage_fee,
                         timestamp |-> Now ])
                  /\ Committed(t)
                  /\ ReplyExecuted(t, filled.user, raw_price, filled.usd_rate)
  /\ UNCHANGED << clock, accounts, users, user_achievements, req, pre, nreq >>

\* ------------------------------------------------------------ reset_portfolio
ResetBegin(t, email) ==
  /\ Arrive(t, "reset", email, <<>>, 0)
  /\ IF UserIdOf(email) = {}
     THEN Reply(t, 404, "user_not_found")
     ELSE /\ ResolvePortfolio(t, CHOOSE u \in UserIdOf(email) : TRUE,
                              "reset_commit", "reset_create")
          /\ UNCHANGED << resp, n_executed >>
  /\ UNCHANGED << clock, accounts, fx_log, portfolios, holdings, transactions, users,
                  user_achievements, usd_inr_cache >>

ResetCreatePortfolio(t) == CreatePortfolio(t, "reset_create", "reset_commit")

\* variant: the holdings are kept
HoldingsAfterReset_Kept(portfolio_id) == holdings

\* "db.query(Holding).filter(Holding.portfolio_id == portfolio.id).delete()"
HoldingsAfterReset(portfolio_id) ==
  {h \in holdings : h.portfolio_id # portfolio_id}

\* the bulk DELETE of the portfolio's holdings, the cash assignment, db.commit()
ResetCommit(t) ==
  /\ pc[t] = "reset_commit"
  /\ holdings' = HoldingsAfterReset(sess[t].portfolio_id)
  /\ portfolios' =
       IF sess[t].cash_loaded = STARTING_CASH THEN portfolios
       ELSE {IF p.id = sess[t].portfolio_id
             THEN [p EXCEPT !.virtual_cash = STARTING_CASH]
             ELSE p : p \in portfolios}
  /\ Committed(t)
  /\ Reply(t, 200, "reset")
  /\ UNCHANGED << clock, accounts, steps, fx_log, transactions, users, user_achievements, usd_inr_cache,
                  req, pre, nreq >>

\* ------------------------------------------------------------ signup, login
\* A stored password is a text in pieces: a plaintext password is the one
\* piece <<password>>, the empty text <<>> is the column of a Google-only
\* account, and a bcrypt hash is <<"$2b$", salt, digest>>.
BCRYPT_IDENT == "$2b$"

\* the digest bcrypt computes from a password and a salt
BcryptDigest(password, salt) == << password, salt >>

\* pwd_context.hash: bcrypt, the first scheme, with a salt drawn at random
Hash(password, salt) == << BCRYPT_IDENT, salt, BcryptDigest(password, salt) >>

\* CryptContext.identify: bcrypt claims the texts that begin with its
\* identifier, plaintext every other text
Identify(stored) ==
  IF stored # <<>> /\ Head(stored) = BCRYPT_IDENT THEN "bcrypt" ELSE "plaintext"

\* pwd_context.verify
Verify(password, stored) ==
  IF Identify(stored) = "bcrypt"
  THEN Len(stored) = 3 /\ stored[3] = BcryptDigest(password, stored[2])
  ELSE stored = << password >>

\* variant: no scheme is deprecated
NeedsUpdate_Never(stored) == FALSE

\* pwd_context.needs_update: deprecated=["plaintext"]
NeedsUpdate(stored) == Identify(stored) = "plaintext"

\* the rows of table users that exist at start-up: a user whose password was
\* stored before passwords were hashed, and a Google-only account
LegacyAccounts ==
  [e \in {"a@fin.in", "b@fin.in"} |->
     IF e = "a@fin.in" THEN << "pw1" >> ELSE << >>]

\* a request of the auth endpoints arrives at thread t
AuthArrive(t, kind, email, password) ==
  /\ pc[t] = "idle"
  /\ nreq < MaxRequests
  /\ nreq' = nreq + 1
  /\ req' = [req EXCEPT ![t] =
       [NoReq EXCEPT !.kind = kind, !.email = email, !.password = password]]
  /\ pre' = [pre EXCEPT ![t] = NoSnapshot]
  /\ interf' = [interf EXCEPT ![t] = FALSE]
  /\ Began(t, <<>>)

signup(t, email, password, salt) ==
  /\ AuthArrive(t, "signup", email, password)
  /\ IF email \in DOMAIN accounts
     THEN Reply(t, 400, "email_exists") /\ UNCHANGED accounts
     ELSE /\ accounts' = accounts @@ (email :> Hash(password, salt))
          /\ Reply(t, 200, "user_created")
  /\ UNCHANGED << clock, fx_log, portfolios, holdings, transactions, users,
                  user_achievements, usd_inr_cache >>

login(t, email, password, salt) ==
  /\ AuthArrive(t, "login", email, password)
  /\ IF email \notin DOMAIN accounts
     THEN Reply(t, 400, "invalid_credentials") /\ UNCHANGED accounts
     ELSE IF accounts[email] = << >>
     THEN Reply(t, 400, "login_with_google") /\ UNCHANGED accounts
     ELSE IF ~ Verify(password, accounts[email])
     THEN Reply(t, 400, "invalid_credentials") /\ UNCHANGED accounts
     ELSE /\ accounts' =
               IF NeedsUpdate(accounts[email])
               THEN [accounts EXCEPT ![email] = Hash(password, salt)]
               ELSE accounts
          /\ Reply(t, 200, "token")
  /\ UNCHANGED << clock, fx_log, portfolios, holdings, transactions, users,
                  user_achievements, usd_inr_cache >>

\* ---------------------------------------------------------- specification
\* The state after start-up: empty trading tables, two registered users who
\* have not traded, the cache as the module defines it.
Init ==
  /\ clock = 1
  /\ portfolios = {}
  /\ holdings = {}
  /\ transactions = <<>>
  /\ users = [u \in UserIds |->
       [last_activity_date |-> NONE, current_streak |-> 0, xp |-> 0]]
  /\ user_achievements = {}
  /\ usd_inr_cache = [rate |-> DEFAULT_USD_INR, timestamp |-> NONE]
  /\ pc = [t \in Threads |-> "idle"]
  /\ req = [t \in Threads |-> NoReq]
  /\ sess = [t \in Threads |-> NoSess]
  /\ resp = [t \in Threads |-> NoResp]
  /\ pre = [t \in Threads |-> NoSnapshot]
  /\ interf = [t \in Threads |-> FALSE]
  /\ n_executed = [u \in UserIds |-> 0]
  /\ nreq = 0
  /\ fx_log = <<>>
  /\ accounts = LegacyAccounts
  /\ steps = [t \in Threads |-> <<>>]

\* what the environment sends and answers
TradeEmails == {"a@fin.in", "nobody@fin.in"}
TradeSymbols == {BTC_INR, AAPL}
Quantities == {0, 1, 2}
Quotes == {{}, {-6000000}, {0}, {20000}, {6000000}}
FxAnswers == {{}, {8300}}
PostFaults == {"none", "streak", "award"}

\* the requests of the threads in T, with the answers of the environment
Trading(T) ==
  \/ \E t \in T, e \in TradeEmails, s \in TradeSymbols, q \in Quantities :
       BuyBegin(t, e, s, q)
  \/ \E t \in T : BuyCreatePortfolio(t)
  \/ \E t \in T, quote \in Quotes, ext \in FxAnswers : BuyQuote(t, quote, ext)
  \/ \E t \in T, fault \in BOOLEAN : BuyCommit(t, fault)
  \/ \E t \in T, fault \in PostFaults : BuyPost(t, fault)
  \/ \E t \in T, e \in TradeEmails, s \in TradeSymbols, q \in Quantities :
       SellBegin(t, e, s, q)
  \/ \E t \in T, quote \in Quotes, ext \in FxAnswers, fault \in BOOLEAN :
       SellQuote(t, quote, ext, fault)
  \/ \E t \in T, e \in TradeEmails : ResetBegin(t, e)
  \/ \E t \in T : ResetCreatePortfolio(t)
  \/ \E t \in T : ResetCommit(t)

\* one request at a time: any sequence of buy, sell and reset requests
Next == Trading({"t1"})

Spec == Init /\ [][Next]_vars

\* Two requests in flight for the same user: their steps interleave.  The
\* environment answers every quote and raises no fault.
ParSymbols == {BTC_INR, AAPL}
ParQuantities == {1, 2}
ParQuotes == {{20000}, {6000000}}

ParNext ==
  \E t \in Threads :
    \/ \E s \in ParSymbols, q \in ParQuantities : BuyBegin(t, "a@fin.in", s, q)
    \/ BuyCreatePortfolio(t)
    \/ \E quote \in ParQuotes : BuyQuote(t, quote, {})
    \/ BuyCommit(t, FALSE)
    \/ BuyPost(t, "none")
    \/ \E s \in ParSymbols, q \in ParQuantities : SellBegin(t, "a@fin.in", s, q)
    \/ \E quote \in ParQuotes : SellQuote(t, quote, {}, FALSE)
    \/ ResetBegin(t, "a@fin.in")
    \/ ResetCreatePortfolio(t)
    \/ ResetCommit(t)

SpecPar == Init /\ [][ParNext]_vars

\* ------------------------------------------------------------ get_asset_price
\* AssetPriceResponse
ReplyPrice(t, raw_price, usd_rate) ==
  /\ resp' = [resp EXCEPT ![t] =
       [NoResp EXCEPT !.code = 200, !.detail = "price", !.raw_price = raw_price,
                      !.usd_rate = usd_rate, !.at = Now]]
  /\ pc' = [pc EXCEPT ![t] = "idle"]
  /\ sess' = [sess EXCEPT ![t] = NoSess]
  /\ UNCHANGED n_executed

\* The quote and, for a US stock, get_usd_to_inr_rate up to the point where
\* it either returns the fresh cached rate or calls the exchange-rate API.
PriceBegin(t, symbol_in, quote) ==
  /\ pc[t] = "idle"
  /\ nreq < MaxLookups
  /\ nreq' = nreq + 1
  /\ req' = [req EXCEPT ![t] =
       [NoReq EXCEPT !.kind = "price", !.symbol = Strip(Upper(symbol_in))]]
  /\ pre' = [pre EXCEPT ![t] = NoSnapshot]
  /\ interf' = [interf EXCEPT ![t] = FALSE]
  /\ Began(t, <<>>)
  /\ IF quote = {}
     THEN Reply(t, 404, "price_not_found") /\ UNCHANGED << usd_inr_cache, fx_log >>
     ELSE LET raw_price == CHOOSE x \in quote : TRUE IN
       IF ~ is_us_stock(Strip(Upper(symbol_in)))
       THEN ReplyPrice(t, raw_price, NONE) /\ UNCHANGED << usd_inr_cache, fx_log >>
       ELSE IF CacheFresh(usd_inr_cache, Now)
       THEN LET fx == get_usd_to_inr_rate(usd_inr_cache, Now, {}) IN
            /\ ReplyPrice(t, raw_price, fx.rate)
            /\ fx_log' = Append(fx_log,
                            FxEntry(nreq + 1, Now, Len(fx_log), fx))
            /\ UNCHANGED usd_inr_cache
       ELSE /\ sess' = [sess EXCEPT ![t] =
                 [NoSess EXCEPT !.raw_price = raw_price, !.n_req = nreq + 1,
                                !.started = Now, !.after = Len(fx_log)]]
            /\ pc' = [pc EXCEPT ![t] = "fx_wait"]
            /\ UNCHANGED << resp, n_executed, usd_inr_cache, fx_log >>
  /\ UNCHANGED << clock, accounts, portfolios, holdings, transactions, users,
                  user_achievements >>

\* The exchange-rate API has answered or failed: the rest of
\* get_usd_to_inr_rate, then the response.
PriceFx(t, ext) ==
  /\ pc[t] = "fx_wait"
  /\ LET fx == FxAnswered(usd_inr_cache, Now, ext) IN
     /\ usd_inr_cache' = fx.cache
     /\ fx_log' = Append(fx_log,
                     FxEntry(sess[t].n_req, sess[t].started, sess[t].after, fx))
     /\ ReplyPrice(t, sess[t].raw_price, fx.rate)
  /\ UNCHANGED << clock, accounts, steps, portfolios, holdings, transactions, users,
                  user_achievements, req, pre, interf, nreq >>

\* ------------------------------------------------------ get_portfolio_summary
\* "raw_price * usd_to_inr" for a US stock, to the fraction of a hundredth
PriceInInr(symbol, raw_price, usd_to_inr) ==
  IF is_us_stock(symbol)
  THEN FracPlus(FracOfInt(ConvertToInr(raw_price, usd_to_inr)),
                Frac((raw_price % HUNDRED) * usd_to_inr, HUNDRED))
  ELSE FracOfInt(raw_price)

\* What the loop over zip(holdings, prices) computes for one holding, before
\* the rounding of the response.
\* variant: a holding whose quote is missing is valued at nothing
FallbackValuation_Zero(h) ==
  [ current_price |-> FracOfInt(0), current_value |-> FracOfInt(0),
    profit_loss |-> FracOfInt(0), profit_loss_percent |-> FracOfInt(0) ]

\* the price fetch failed: the average buy price stands in for the price
FallbackValuation(h) ==
  [ current_price |-> h.average_buy_price,
    current_value |-> FracTimes(h.average_buy_price, h.quantity),
    profit_loss |-> FracOfInt(0), profit_loss_percent |-> FracOfInt(0) ]

\* the price fetch returned raw_price
QuotedValuation(h, raw_price, usd_to_inr) ==
  LET price_inr == PriceInInr(h.asset_symbol, raw_price, usd_to_inr)
      current_value == FracTimes(price_inr, h.quantity)
      cost_basis == FracTimes(h.average_buy_price, h.quantity)
  IN [ current_price |-> price_inr,
       current_value |-> current_value,
       profit_loss |-> FracMinus(current_value, cost_basis),
       profit_loss_percent |->
         IF h.average_buy_price.num > 0
         THEN FracTimes(FracRatio(FracMinus(price_inr, h.average_buy_price),
                                  h.average_buy_price), HUNDRED)
         ELSE FracOfInt(0) ]

Valuation(h, quote, usd_to_inr) ==
  IF quote # {}
  THEN QuotedValuation(h, CHOOSE x \in quote : TRUE, usd_to_inr)
  ELSE FallbackValuation(h)

\* One HoldingResponse: the amounts rounded to two decimals, and no
\* current_price when it is 0.  id is history: the row that was valued.
HoldingResponse(h, v) ==
  [ id |-> h.id, asset_symbol |-> h.asset_symbol, quantity |-> h.quantity,
    average_buy_price |-> Round2(h.average_buy_price),
    current_price |-> IF v.current_price.num # 0
                      THEN Round2(v.current_price) ELSE NONE,
    current_value |-> Round2(v.current_value),
    profit_loss |-> Round2(v.profit_loss),
    profit_loss_percent |-> Round2(v.profit_loss_percent) ]

\* portfolio.holdings: the rows of the portfolio, in rowid order
RECURSIVE HoldingSeq(_)
HoldingSeq(rows) ==
  IF rows = {} THEN <<>>
  ELSE LET h == CHOOSE r \in rows : \A o \in rows : r.id <= o.id
       IN <<h>> \o HoldingSeq(rows \ {h})

\* the permutations of 1..n: the orders in which n lookups can complete
Orders(n) ==
  {f \in [1..n -> 1..n] : \A i, j \in 1..n : f[i] = f[j] => i = j}

\* asyncio.gather: answers[i] is what task i returns and order[k] the task
\* that completes k-th.
\* variant: the results are listed in the order of completion
Gather_AsCompleted(answers, order) ==
  [k \in 1..Len(answers) |-> answers[order[k]]]

\* each result is put at the position of its task
Gather(answers, order) ==
  [i \in 1..Len(answers) |->
     answers[order[CHOOSE k \in 1..Len(order) : order[k] = i]]]

\* the user and get_or_create_portfolio's read
SummaryBegin(t, email) ==
  /\ pc[t] = "idle"
  /\ nreq < MaxLookups
  /\ nreq' = nreq + 1
  /\ req' = [req EXCEPT ![t] = [NoReq EXCEPT !.kind = "summary", !.email = email]]
  /\ pre' = [pre EXCEPT ![t] =
       IF UserIdOf(email) = {} THEN NoSnapshot
       ELSE Snapshot(CHOOSE u \in UserIdOf(email) : TRUE)]
  /\ interf' = [interf EXCEPT ![t] = FALSE]
  /\ Began(t, <<>>)
  /\ IF UserIdOf(email) = {}
     THEN Reply(t, 404, "user_not_found")
     ELSE /\ ResolvePortfolio(t, CHOOSE u \in UserIdOf(email) : TRUE,
                              "summary_value", "summary_create")
          /\ UNCHANGED << resp, n_executed >>
  /\ UNCHANGED << clock, accounts, fx_log, portfolios, holdings, transactions, users,
                  user_achievements, usd_inr_cache >>

SummaryCreatePortfolio(t) ==
  CreatePortfolio(t, "summary_create", "summary_value")

\* The rest of the handler: one exchange-rate lookup, one price lookup per
\* holding, gathered, the valuation loop and the response.  market is what a
\* price lookup returns for each symbol, order the order in which the
\* lookups complete.
SummaryValue(t, market, order, ext) ==
  /\ pc[t] = "summary_value"
  /\ LET fx == get_usd_to_inr_rate(usd_inr_cache, Now, ext)
         rows == HoldingSeq(HoldingsOf(sess[t].portfolio_id))
         answers == [i \in 1..Len(rows) |-> market[rows[i].asset_symbol]]
         prices == Gather(answers, order)
         values == [i \in 1..Len(rows) |-> Valuation(rows[i], prices[i], fx.rate)]
         total_holdings_value ==
           FracSum([i \in 1..Len(rows) |-> values[i].current_value])
         total_portfolio_value ==
           FracPlus(FracOfInt(sess[t].cash), total_holdings_value)
     IN
     /\ order \in Orders(Len(rows))
     /\ usd_inr_cache' = fx.cache
     /\ fx_log' = Append(fx_log, FxEntry(nreq, Now, Len(fx_log), fx))
     /\ resp' = [resp EXCEPT ![t] =
          [NoResp EXCEPT
             !.code = 200, !.detail = "summary", !.usd_rate = fx.rate,
             !.at = Now,
             !.holdings = {HoldingResponse(rows[i], values[i]) :
                             i \in 1..Len(rows)},
             !.virtual_cash = Round2(FracOfInt(sess[t].cash)),
             !.total_holdings_value = Round2(total_holdings_value),
             !.total_portfolio_value = Round2(total_portfolio_value),
             !.market = [s \in {rows[i].asset_symbol : i \in 1..Len(rows)} |->
                           market[s]],
             !.order = order]]
     /\ pc' = [pc EXCEPT ![t] = "idle"]
     /\ sess' = [sess EXCEPT ![t] = NoSess]
  /\ UNCHANGED << clock, accounts, steps, portfolios, holdings, transactions, users,
                  user_achievements, req, pre, interf, nreq, n_executed >>

\* ------------------------------------------------------------------ get_holdings
\* the user and get_or_create_portfolio's read
HoldingsBegin(t, email) ==
  /\ pc[t] = "idle"
  /\ nreq < MaxLookups
  /\ nreq' = nreq + 1
  /\ req' = [req EXCEPT ![t] = [NoReq EXCEPT !.kind = "holdings", !.email = email]]
  /\ pre' = [pre EXCEPT ![t] =
       IF UserIdOf(email) = {} THEN NoSnapshot
       ELSE Snapshot(CHOOSE u \in UserIdOf(email) : TRUE)]
  /\ interf' = [interf EXCEPT ![t] = FALSE]
  /\ Began(t, <<>>)
  /\ IF UserIdOf(email) = {}
     THEN Reply(t, 404, "user_not_found")
     ELSE /\ ResolvePortfolio(t, CHOOSE u \in UserIdOf(email) : TRUE,
                              "holdings_list", "holdings_create")
          /\ UNCHANGED << resp, n_executed >>
  /\ UNCHANGED << clock, accounts, fx_log, portfolios, holdings, transactions, users,
                  user_achievements, usd_inr_cache >>

HoldingsCreatePortfolio(t) ==
  CreatePortfolio(t, "holdings_create", "holdings_list")

\* the HoldingResponse list, without prices
HoldingsList(t) ==
  /\ pc[t] = "holdings_list"
  /\ resp' = [resp EXCEPT ![t] =
       [NoResp EXCEPT
          !.code = 200, !.detail = "holdings", !.at = Now,
          !.holdings =
             {[ id |-> h.id, asset_symbol |-> h.asset_symbol,
                quantity |-> h.quantity,
                average_buy_price |-> Round2(h.average_buy_price),
                current_price |-> NONE, current_value |-> NONE,
                profit_loss |-> NONE, profit_loss_percent |-> NONE ] :
              h \in HoldingsOf(sess[t].portfolio_id)}]]
  /\ pc' = [pc EXCEPT ![t] = "idle"]
  /\ sess' = [sess EXCEPT ![t] = NoSess]
  /\ UNCHANGED << clock, accounts, steps, fx_log, portfolios, holdings, transactions, users,
                  user_achievements, usd_inr_cache, req, pre, interf, nreq,
                  n_executed >>

\* ---------------------------------------------------- get_transaction_history
\* the rows of table transactions with their rowid
TransactionRows ==
  [i \in 1..Len(transactions) |-> transactions[i] @@ [id |-> i]]

\* strftime("%b %d, %Y %I:%M %p"): the date, the hour on the 12-hour clock,
\* the minute and AM or PM; the seconds are dropped
FormatTimestamp(n) ==
  LET hour == TimeOfDay(n) \div 3600 IN
  [ day |-> Today(n),
    hour |-> IF hour % 12 = 0 THEN 12 ELSE hour % 12,
    minute |-> (TimeOfDay(n) % 3600) \div 60,
    pm |-> hour >= 12 ]

TransactionResponse(txn) ==
  [ id |-> txn.id, symbol |-> txn.symbol, type |-> txn.type,
    quantity |-> txn.quantity,
    price_per_share |-> Round2(FracOfInt(txn.price_per_share)),
    total_amount |-> Round2(FracOfInt(txn.total_amount)),
    brokerage_fee |-> Round2(FracOfInt(txn.brokerage_fee)),
    timestamp |-> FormatTimestamp(txn.timestamp) ]

\* ".order_by(Transaction.timestamp.desc())": listing[k] is the position in
\* rows of the k-th row returned; rows of one timestamp come in any order.
\* variant: the oldest row comes first
OrderedByTimestamp_Ascending(rows, listing) ==
  \A i, j \in 1..Len(listing) :
    i < j => rows[listing[i]].timestamp <= rows[listing[j]].timestamp

OrderedByTimestamp(rows, listing) ==
  \A i, j \in 1..Len(listing) :
    i < j => rows[listing[i]].timestamp >= rows[listing[j]].timestamp

\* The whole handler: the user, the query and the response.
History(t, email, listing) ==
  /\ pc[t] = "idle"
  /\ nreq < MaxLookups
  /\ nreq' = nreq + 1
  /\ req' = [req EXCEPT ![t] = [NoReq EXCEPT !.kind = "history", !.email = email]]
  /\ pre' = [pre EXCEPT ![t] =
       IF UserIdOf(email) = {} THEN NoSnapshot
       ELSE Snapshot(CHOOSE u \in UserIdOf(email) : TRUE)]
  /\ interf' = [interf EXCEPT ![t] = FALSE]
  /\ Began(t, <<>>)
  /\ IF UserIdOf(email) = {}
     THEN /\ listing = <<>>
          /\ Reply(t, 404, "user_not_found")
     ELSE LET u == CHOOSE x \in UserIdOf(email) : TRUE
              rows == SelectSeq(TransactionRows, LAMBDA x : x.user_id = u)
          IN
          /\ listing \in Orders(Len(rows))
          /\ OrderedByTimestamp(rows, listing)
          /\ resp' = [resp EXCEPT ![t] =
               [NoResp EXCEPT
                  !.code = 200, !.detail = "history", !.at = Now,
                  !.history = [k \in 1..Len(rows) |->
                                 TransactionResponse(rows[listing[k]])]]]
          /\ pc' = [pc EXCEPT ![t] = "idle"]
          /\ sess' = [sess EXCEPT ![t] = NoSess]
          /\ UNCHANGED n_executed
  /\ UNCHANGED << clock, accounts, fx_log, portfolios, holdings, transactions, users,
                  user_achievements, usd_inr_cache >>

\* Orders while the clock runs: the wall clock moves on between the steps of
\* a request, through the instants of TimeSamples.
Tick ==
  /\ clock < Len(TimeSamples)
  /\ clock' = clock + 1
  /\ UNCHANGED << portfolios, holdings, transactions, users, user_achievements,
                  usd_inr_cache, pc, req, sess, resp, pre, interf, n_executed,
                  nreq, fx_log, accounts, steps >>

MarketSymbols == {TCS_NS, XINR_NS, BTC_INR}
MarketQuotes == {{20000}}

MarketNext ==
  \/ Tick
  \/ \E s \in MarketSymbols : BuyBegin("t1", "a@fin.in", s, 1)
  \/ BuyCreatePortfolio("t1")
  \/ \E quote \in MarketQuotes : BuyQuote("t1", quote, {})
  \/ BuyCommit("t1", FALSE)
  \/ BuyPost("t1", "none")
  \/ \E s \in MarketSymbols : SellBegin("t1", "a@fin.in", s, 1)
  \/ \E quote \in MarketQuotes : SellQuote("t1", quote, {}, FALSE)

SpecMarket == Init /\ [][MarketNext]_vars

\* Exchange-rate lookups while the clock runs: price requests and orders on
\* a US stock, one request at a time.
FxRates == {{}, {8300}}
FxParRates == {{8300}, {8400}}
FxSymbols == {AAPL, BTC_INR}
FxQuotes == {{20000}}

\* The clock of these runs stops at the instant of index MaxFxClock.  A call
\* of the exchange-rate API returns or times out within REQUEST_TIMEOUT.
FxTick ==
  /\ clock < MaxFxClock
  /\ \A t \in Threads :
       pc[t] = "fx_wait"
         => TimeSamples[clock + 1] - sess[t].started <= REQUEST_TIMEOUT
  /\ Tick

FxNext ==
  \/ FxTick
  \/ \E s \in FxSymbols, quote \in FxQuotes : PriceBegin("t1", s, quote)
  \/ \E ext \in FxRates : PriceFx("t1", ext)
  \/ BuyBegin("t1", "a@fin.in", AAPL, 1)
  \/ BuyCreatePortfolio("t1")
  \/ \E quote \in FxQuotes, ext \in FxRates : BuyQuote("t1", quote, ext)
  \/ BuyCommit("t1", FALSE)
  \/ BuyPost("t1", "none")
  \/ SellBegin("t1", "a@fin.in", AAPL, 1)
  \/ \E quote \in FxQuotes, ext \in FxRates : SellQuote("t1", quote, ext, FALSE)

SpecFx == Init /\ [][FxNext]_vars

\* Two price requests under way at once: their exchange-rate calls overlap.
FxParNext ==
  \/ FxTick
  \/ \E t \in Threads, quote \in FxQuotes : PriceBegin(t, AAPL, quote)
  \/ \E t \in Threads, ext \in FxParRates : PriceFx(t, ext)

SpecFxPar == Init /\ [][FxParNext]_vars

\* Summaries of a portfolio built by buys, one request at a time.
SummaryEmails == {"a@fin.in", "nobody@fin.in"}
SummaryQuotes == {{}, {20000}, {20002}}
SummaryRates == {{}, {8333}}
SummaryOrders == UNION {Orders(n) : n \in 0..Cardinality(TradeSymbols)}

SummaryNext ==
  \/ \E s \in TradeSymbols : BuyBegin("t1", "a@fin.in", s, 1)
  \/ BuyCreatePortfolio("t1")
  \/ \E quote \in FxQuotes, ext \in FxRates : BuyQuote("t1", quote, ext)
  \/ BuyCommit("t1", FALSE)
  \/ BuyPost("t1", "none")
  \/ \E e \in SummaryEmails : SummaryBegin("t1", e)
  \/ SummaryCreatePortfolio("t1")
  \/ \E market \in [TradeSymbols -> SummaryQuotes], order \in SummaryOrders,
          ext \in SummaryRates :
       SummaryValue("t1", market, order, ext)

SpecSummary == Init /\ [][SummaryNext]_vars

\* Histories of two users who buy and sell one symbol while the clock runs.
HistoryEmails == {"a@fin.in", "b@fin.in", "nobody@fin.in"}
HistoryTraders == {"a@fin.in", "b@fin.in"}
HistoryListings == UNION {Orders(n) : n \in 0..MaxRequests}

HistoryNext ==
  \/ FxTick
  \/ \E e \in HistoryTraders : BuyBegin("t1", e, BTC_INR, 1)
  \/ BuyCreatePortfolio("t1")
  \/ \E quote \in FxQuotes : BuyQuote("t1", quote, {})
  \/ BuyCommit("t1", FALSE)
  \/ BuyPost("t1", "none")
  \/ \E e \in HistoryTraders : SellBegin("t1", e, BTC_INR, 1)
  \/ \E quote \in FxQuotes : SellQuote("t1", quote, {}, FALSE)
  \/ \E e \in HistoryEmails, listing \in HistoryListings :
       History("t1", e, listing)

SpecHistory == Init /\ [][HistoryNext]_vars

\* Resets of two users who buy, one request at a time.
ResetNext ==
  \/ \E e \in HistoryTraders, s \in TradeSymbols, q \in ParQuantities :
       BuyBegin("t1", e, s, q)
  \/ BuyCreatePortfolio("t1")
  \/ \E quote \in FxQuotes : BuyQuote("t1", quote, {})
  \/ BuyCommit("t1", FALSE)
  \/ BuyPost("t1", "none")
  \/ \E e \in HistoryEmails : ResetBegin("t1", e)
  \/ ResetCreatePortfolio("t1")
  \/ ResetCommit("t1")

SpecReset == Init /\ [][ResetNext]_vars

\* First accesses: two requests of one user under way at once, each of which
\* creates the portfolio when it finds none.
FirstMarkets == [TradeSymbols -> FxQuotes]

FirstNext ==
  \E t \in Threads :
    \/ BuyBegin(t, "a@fin.in", BTC_INR, 1)
    \/ BuyCreatePortfolio(t)
    \/ \E quote \in FxQuotes : BuyQuote(t, quote, {})
    \/ BuyCommit(t, FALSE)
    \/ BuyPost(t, "none")
    \/ ResetBegin(t, "a@fin.in")
    \/ ResetCreatePortfolio(t)
    \/ ResetCommit(t)
    \/ SummaryBegin(t, "a@fin.in")
    \/ SummaryCreatePortfolio(t)
    \/ \E market \in FirstMarkets, order \in SummaryOrders :
         SummaryValue(t, market, order, {})
    \/ HoldingsBegin(t, "a@fin.in")
    \/ HoldingsCreatePortfolio(t)
    \/ HoldingsList(t)

SpecFirst == Init /\ [][FirstNext]_vars

\* One symbol written in three ways: buys on one thread, sells on the other.
CaseSymbols == {AAPL, AAPL_LOWER, AAPL_PADDED}

CaseNext ==
  \/ \E s \in CaseSymbols : BuyBegin("t1", "a@fin.in", s, 1)
  \/ BuyCreatePortfolio("t1")
  \/ \E quote \in FxQuotes : BuyQuote("t1", quote, {})
  \/ BuyCommit("t1", FALSE)
  \/ BuyPost("t1", "none")
  \/ \E s \in CaseSymbols : SellBegin("t2", "a@fin.in", s, 1)
  \/ \E quote \in FxQuotes : SellQuote("t2", quote, {}, FALSE)

SpecCase == Init /\ [][CaseNext]_vars

\* Orders on a domestic stock and on a US stock while the clock runs, with
\* quotes that may be missing and no answer from the exchange-rate API.
StepSymbols == {TCS_NS, AAPL}
StepQuotes == {{}, {20000}}

StepNext ==
  \/ Tick
  \/ \E s \in StepSymbols : BuyBegin("t1", "a@fin.in", s, 1)
  \/ BuyCreatePortfolio("t1")
  \/ \E quote \in StepQuotes : BuyQuote("t1", quote, {})
  \/ BuyCommit("t1", FALSE)
  \/ BuyPost("t1", "none")
  \/ \E s \in StepSymbols : SellBegin("t1", "a@fin.in", s, 1)
  \/ \E quote \in StepQuotes : SellQuote("t1", quote, {}, FALSE)

SpecSteps == Init /\ [][StepNext]_vars

\* Buys and sells of one user on two threads, with no reset: the orders
\* may overlap.
LedgerNext ==
  \/ \E t \in Threads, s \in ParSymbols, q \in ParQuantities :
       BuyBegin(t, "a@fin.in", s, q)
  \/ \E t \in Threads : BuyCreatePortfolio(t)
  \/ \E t \in Threads, quote \in ParQuotes : BuyQuote(t, quote, {})
  \/ \E t \in Threads : BuyCommit(t, FALSE)
  \/ \E t \in Threads : BuyPost(t, "none")
  \/ \E t \in Threads, s \in ParSymbols, q \in ParQuantities :
       SellBegin(t, "a@fin.in", s, q)
  \/ \E t \in Threads, quote \in ParQuotes : SellQuote(t, quote, {}, FALSE)

SpecLedger == Init /\ [][LedgerNext]_vars

\* Signups and logins, one request at a time.
Passwords == {"pw1", "pw2"}
Salts == {"s1", "s2"}

AuthNext ==
  \/ \E e \in Emails, p \in Passwords, salt \in Salts : signup("t1", e, p, salt)
  \/ \E e \in Emails, p \in Passwords, salt \in Salts : login("t1", e, p, salt)

SpecAuth == Init /\ [][AuthNext]_vars

\* ======================================================================
\* Properties
\* ======================================================================
Quiescent == \A t \in Threads : pc[t] = "idle"

\* thread t has answered a request of a registered user, and no other
\* request has committed since that request arrived
Answered(t) ==
  /\ pc[t] = "idle"
  /\ resp[t].code # 0
  /\ ~ interf[t]
  /\ UserIdOf(req[t].email) # {}

UserOf(t) == CHOOSE u \in UserIdOf(req[t].email) : TRUE

Executed(t, kind) ==
  Answered(t) /\ req[t].kind = kind /\ resp[t].detail = "executed"

\* the cash of the user's portfolio in a snapshot; a portfolio that does not
\* exist yet stands at the balance it is created with
CashIn(snap) ==
  IF snap.portfolios = {} THEN STARTING_CASH
  ELSE (CHOOSE p \in snap.portfolios : TRUE).virtual_cash

HoldingIn(snap, symbol) == {h \in snap.holdings : h.asset_symbol = symbol}

SameTrading(before, after) ==
  /\ CashIn(before) = CashIn(after)
  /\ before.holdings = after.holdings
  /\ before.ledger = after.ledger

LastRow(u) == LedgerOf(u)[Len(LedgerOf(u))]

\* C1: the cash balance of every portfolio is >= 0 in every reachable state.
C1_CashNeverNegative == \A p \in portfolios : p.virtual_cash >= 0

\* C2: a buy or sell answered with the 500 of its commit block has left the
\* user's cash, holdings and ledger exactly as they were when it arrived.
C2_FailureLeavesNoTrace ==
  \A t \in Threads :
    (Answered(t) /\ resp[t].detail \in {"trade_failed", "sell_failed"})
      => SameTrading(pre[t], Snapshot(UserOf(t)))

\* C3: a buy whose total cost exceeds the cash balance and a sell of more
\* than is held, or of a symbol that is not held, are rejected (no such order
\* is ever executed) and the rejection leaves cash, holdings and ledger as
\* they were when the request arrived.
C3_RejectedOrderChangesNothing ==
  \A t \in Threads :
    /\ (Answered(t) /\ resp[t].detail \in
          {"insufficient_funds", "no_holding", "insufficient_holdings"})
         => SameTrading(pre[t], Snapshot(UserOf(t)))
    /\ Executed(t, "buy") =>
         LastRow(UserOf(t)).total_amount + LastRow(UserOf(t)).brokerage_fee
           <= CashIn(pre[t])
    /\ Executed(t, "sell") =>
         \E h \in HoldingIn(pre[t], req[t].symbol) : h.quantity >= req[t].quantity

\* a buy is refused for lack of funds by a portfolio that already holds a position
C3_Witness ==
  \E t \in Threads :
    /\ Answered(t)
    /\ resp[t].detail = "insufficient_funds"
    /\ pre[t].holdings # {}
    /\ CashIn(pre[t]) < STARTING_CASH

\* C4: once every request is answered, each user's ledger has exactly as
\* many rows as that user had orders answered as executed.
C4_OneRowPerExecutedOrder ==
  Quiescent => \A u \in UserIds : Len(LedgerOf(u)) = n_executed[u]

\* C5: at most one Holding row per (portfolio, symbol) pair.
C5_OneHoldingPerSymbol ==
  \A g, h \in holdings :
    (g.portfolio_id = h.portfolio_id /\ g.asset_symbol = h.asset_symbol) => g = h

\* what the ledger's orders add to the cash: - (value + fee) for a BUY,
\* + (value - fee) for a SELL
RECURSIVE LedgerNet(_)
LedgerNet(rows) ==
  IF rows = <<>> THEN 0
  ELSE LET r == Head(rows) IN
       (IF r.type = "BUY" THEN - (r.total_amount + r.brokerage_fee)
        ELSE r.total_amount - r.brokerage_fee) + LedgerNet(Tail(rows))

\* C6: when every request so far was an executed order and no two of them
\* were for the same symbol, the cash and the holdings are those of running
\* the orders one after the other from the starting balance: every debit is
\* in the cash, and each order's symbol is held as bought.
C6_DifferentSymbolsIndependent ==
  \A u \in UserIds :
    LET rows == LedgerOf(u) IN
    ( /\ Quiescent
      /\ nreq > 0
      /\ nreq = n_executed[u]
      /\ \A i, j \in 1..Len(rows) : rows[i].symbol = rows[j].symbol => i = j )
    => /\ CashIn(Snapshot(u)) = STARTING_CASH + LedgerNet(rows)
       /\ \A i \in 1..Len(rows) :
            \E h \in Snapshot(u).holdings :
              /\ h.asset_symbol = rows[i].symbol
              /\ h.quantity = rows[i].quantity
              /\ h.average_buy_price = FracOfInt(rows[i].price_per_share)

\* C7: every stored Holding has quantity > 0.
C7_HoldingQuantityPositive == \A h \in holdings : h.quantity > 0

\* a sell of the whole position has been executed and the Holding is gone
C7_Witness ==
  \E t \in Threads :
    /\ Executed(t, "sell")
    /\ \E h \in HoldingIn(pre[t], req[t].symbol) : h.quantity = req[t].quantity
    /\ HoldingIn(Snapshot(UserOf(t)), req[t].symbol) = {}

\* C8: every Transaction row has price_per_share > 0.
C8_NoOrderAtNonPositivePrice ==
  \A i \in 1..Len(transactions) : transactions[i].price_per_share > 0

\* C9: after an executed buy of quantity q at price p, the symbol's Holding
\* has quantity oldQty + q and average (oldQty*oldAvg + q*p) / (oldQty + q)
\* when a Holding (oldQty, oldAvg) existed, and quantity q and average p
\* when none did.
C9_WeightedAverage ==
  \A t \in Threads :
    Executed(t, "buy") =>
      LET u == UserOf(t)
          q == req[t].quantity
          p == LastRow(u).price_per_share
          old == HoldingIn(pre[t], req[t].symbol)
          new == HoldingIn(Snapshot(u), req[t].symbol)
      IN /\ Cardinality(new) = 1
         /\ \A h \in new :
              IF old = {}
              THEN /\ h.quantity = q
                   /\ h.average_buy_price.num = p * h.average_buy_price.den
              ELSE \A o \in old :
                     /\ h.quantity = o.quantity + q
                     /\ h.average_buy_price.num * o.average_buy_price.den
                          * (o.quantity + q)
                        = h.average_buy_price.den
                          * (o.quantity * o.average_buy_price.num
                             + q * p * o.average_buy_price.den)

\* a buy at a new price has been added to a Holding of a different size
C9_Witness ==
  \E t \in Threads :
    /\ Executed(t, "buy")
    /\ \E o \in HoldingIn(pre[t], req[t].symbol) :
         /\ o.quantity # req[t].quantity
         /\ o.average_buy_price # FracOfInt(LastRow(UserOf(t)).price_per_share)

\* C10: after an executed buy the cash is the cash before it minus
\* (price*quantity + fee), with fee = price*quantity*0.001 and price the
\* quote, multiplied by the USD/INR rate for a US stock.
C10_BuyDebit ==
  \A t \in Threads :
    Executed(t, "buy") =>
      LET u == UserOf(t)
          price == IF is_us_stock(req[t].symbol)
                   THEN (resp[t].raw_price \div HUNDRED) * resp[t].usd_rate
                        + ((resp[t].raw_price % HUNDRED) * resp[t].usd_rate)
                            \div HUNDRED
                   ELSE resp[t].raw_price
          gross == price * req[t].quantity
          debit == CashIn(pre[t]) - CashIn(Snapshot(u))
      IN /\ LastRow(u).price_per_share = price
         /\ (debit - gross) * 1000 = gross

\* a US stock has been bought at a converted price
C10_Witness ==
  \E t \in Threads :
    /\ Executed(t, "buy")
    /\ is_us_stock(req[t].symbol)
    /\ resp[t].usd_rate # NONE
    /\ CashIn(Snapshot(UserOf(t))) < CashIn(pre[t])

\* C11: after an executed sell the cash is the cash before it plus
\* (price*quantity - fee), with fee = price*quantity*0.001; every ledger
\* row, BUY or SELL, carries a fee of 0.001 of its amount.
C11_SellCredit ==
  /\ \A t \in Threads :
       Executed(t, "sell") =>
         LET u == UserOf(t)
             gross == LastRow(u).price_per_share * req[t].quantity
             credit == CashIn(Snapshot(u)) - CashIn(pre[t])
         IN /\ LastRow(u).type = "SELL"
            /\ LastRow(u).total_amount = gross
            /\ (gross - credit) * 1000 = gross
  /\ \A i \in 1..Len(transactions) :
       transactions[i].brokerage_fee * 1000 = transactions[i].total_amount

\* a sell at a positive price has been executed and has raised the cash
C11_Witness ==
  \E t \in Threads :
    /\ Executed(t, "sell")
    /\ LastRow(UserOf(t)).price_per_share > 0
    /\ CashIn(Snapshot(UserOf(t))) > CashIn(pre[t])

\* C12: after an executed sell of quantity q from a Holding of quantity h,
\* the Holding is gone when q = h, and has quantity h - q and the same
\* average buy price when q < h.
C12_SellHolding ==
  \A t \in Threads :
    Executed(t, "sell") =>
      LET after == HoldingIn(Snapshot(UserOf(t)), req[t].symbol) IN
      \A o \in HoldingIn(pre[t], req[t].symbol) :
        IF req[t].quantity = o.quantity
        THEN after = {}
        ELSE after = {[o EXCEPT !.quantity = o.quantity - req[t].quantity]}

\* a part of a position has been sold and the rest is still held
C12_Witness ==
  \E t \in Threads :
    /\ Executed(t, "sell")
    /\ \E o \in HoldingIn(pre[t], req[t].symbol) :
         /\ req[t].quantity < o.quantity
         /\ HoldingIn(Snapshot(UserOf(t)), req[t].symbol) # {}

\* C13: a request answered market closed, price unavailable or invalid
\* price has changed nothing: the user's Portfolio rows, cash, holdings and
\* ledger are those of the moment the request arrived.
C13_EarlyRejectionChangesNothing ==
  \A t \in Threads :
    (Answered(t) /\ resp[t].detail \in
        {"market_closed", "price_unavailable", "invalid_price"})
      => pre[t] = Snapshot(UserOf(t))

\* the trading window of the domestic exchanges: Monday to Friday,
\* 09:15:00 to 15:30:00, both included
InWindow(n) ==
  /\ (n \div 86400) % 7 \in 0..4
  /\ 9 * 3600 + 15 * 60 <= n % 86400
  /\ n % 86400 <= 15 * 3600 + 30 * 60

\* symbols as a client may write them, of every asset class
SampleSymbols == {TCS_NS, INFY_BO, XINR_NS, BTC_INR, AAPL}

DomesticSuffix(s) == EndsWith(Upper(s), SUF_NS) \/ EndsWith(Upper(s), SUF_BO)

CryptoMarker(s) == Contains(Upper(s), MARK_USD) \/ Contains(Upper(s), MARK_INR)

\* thread t has answered an order that went past the market calendar
PassedCalendar(t) ==
  /\ Answered(t)
  /\ \/ resp[t].detail = "executed"
     \/ req[t].kind = "buy" /\ resp[t].detail \in
          {"price_unavailable", "invalid_price", "insufficient_funds"}
     \/ req[t].kind = "sell" /\ resp[t].detail \in
          {"no_holding", "insufficient_holdings"}

\* the instant at which that order consulted the calendar
CalendarInstant(t) ==
  IF resp[t].detail = "executed" THEN resp[t].checked_at ELSE resp[t].at

\* C14: for a symbol with a domestic suffix and no crypto marker the market
\* is open exactly on Monday to Friday from 09:15:00 to 15:30:00, both
\* included; for a symbol with a crypto marker only, and for a symbol with
\* neither, it is open at every instant; orders are let through and turned
\* away accordingly.
C14_MarketHours ==
  /\ \A s \in SampleSymbols :
       /\ (DomesticSuffix(s) /\ ~ CryptoMarker(s))
            => (is_market_open(s, Now) <=> InWindow(Now))
       /\ ~ DomesticSuffix(s) => is_market_open(s, Now)
  /\ \A t \in Threads :
       /\ (Answered(t) /\ resp[t].detail = "market_closed")
            => (DomesticSuffix(req[t].symbol) /\ ~ InWindow(resp[t].at))
       /\ (PassedCalendar(t) /\ DomesticSuffix(req[t].symbol)
              /\ ~ CryptoMarker(req[t].symbol))
            => InWindow(CalendarInstant(t))

\* a domestic order is turned away one second after the close, after the
\* same symbol was bought at the close instant
C14_Witness ==
  /\ resp["t1"].detail = "market_closed"
  /\ resp["t1"].at = 15 * 3600 + 30 * 60 + 1
  /\ \E i \in 1..Len(transactions) :
       /\ transactions[i].symbol = req["t1"].symbol
       /\ transactions[i].timestamp = 15 * 3600 + 30 * 60

\* C15: every order on a symbol that ends in a domestic suffix, whatever
\* else the symbol contains, is subject to the domestic trading window: it
\* goes past the market calendar only inside the window.
C15_OneClassification ==
  \A t \in Threads :
    (PassedCalendar(t) /\ DomesticSuffix(req[t].symbol))
      => InWindow(CalendarInstant(t))

\* the last of the first k entries of fx_log that came from the API, as a
\* set: the fetch whose rate and timestamp the cache holds after k calls
LastLive(k) ==
  LET lives == {i \in 1..k : fx_log[i].source = "live"} IN
  IF lives = {} THEN {}
  ELSE {fx_log[CHOOSE i \in lives : \A o \in lives : o <= i]}

\* the rate the cache holds when call j of fx_log returns
CachedRate(j) ==
  IF LastLive(j - 1) = {} THEN 8750
  ELSE (CHOOSE e \in LastLive(j - 1) : TRUE).rate

\* C16 as stated: of any two lookups made less than 60 seconds apart, the
\* second returns the rate of the first and makes no external call.
C16_LookupsSixtySecondsApart ==
  \A i, j \in DOMAIN fx_log :
    (i < j /\ fx_log[j].started - fx_log[i].started < 60)
      => /\ fx_log[j].rate = fx_log[i].rate
         /\ fx_log[j].source = "cached"

\* C16, amended: a lookup made less than 60 seconds after the cached rate
\* was fetched returns the cached rate and makes no external call; a lookup
\* made 60 seconds or more after it, or before any fetch has succeeded,
\* makes an external call and, when that call fails, returns the rate that
\* was cached before.
C16_CacheWindow ==
  \A j \in DOMAIN fx_log :
    LET e == fx_log[j] IN
    IF \E f \in LastLive(e.after) : e.started - f.at < 60
    THEN e.source = "cached" /\ e.rate = CachedRate(j)
    ELSE /\ e.source \in {"live", "fallback"}
         /\ e.source = "fallback" => e.rate = CachedRate(j)

\* a rate was fetched, served from the cache 59 seconds later, and after 60
\* seconds a new call was made, failed and returned the cached rate
C16_Witness ==
  /\ Len(fx_log) = 3
  /\ fx_log[1].source = "live"
  /\ fx_log[2].source = "cached" /\ fx_log[2].started = fx_log[1].at + 59
  /\ fx_log[3].source = "fallback" /\ fx_log[3].started = fx_log[1].at + 60
  /\ fx_log[3].rate = fx_log[1].rate

C18_LedgerRecordsRate ==
  \A i \in DOMAIN transactions :
    is_us_stock(transactions[i].symbol)
      => "usd_to_inr_rate" \in DOMAIN transactions[i]

\* C19: when no exchange-rate call is under way, the cache holds the rate
\* of the call that was issued last among those that succeeded, with the
\* timestamp written with that rate.
C19_NoLostRefresh ==
  (\A t \in Threads : pc[t] # "fx_wait") =>
    \A j \in DOMAIN fx_log :
      ( /\ fx_log[j].source = "live"
        /\ \A i \in DOMAIN fx_log :
             (i # j /\ fx_log[i].source = "live")
               => fx_log[i].started < fx_log[j].started )
      => /\ usd_inr_cache.rate = fx_log[j].rate
         /\ usd_inr_cache.timestamp = fx_log[j].at

\* thread t has answered a portfolio summary
Summarised(t) == Answered(t) /\ req[t].kind = "summary"

\* x is a whole number of hundredths nearest to the fraction f
Nearest(x, f) == 2 * Abs(x * f.den - f.num) <= f.den

\* average buy price * quantity of holding h, in hundredths
CostOf(h) == [num |-> h.average_buy_price.num * h.quantity,
              den |-> h.average_buy_price.den]

\* quantity of h at the quote raw_price, in hundredths of INR: the quote
\* itself, or the quote in USD hundredths times the rate in hundredths
ValueAt(h, raw_price, usd_rate) ==
  IF is_us_stock(h.asset_symbol)
  THEN [num |-> raw_price * usd_rate * h.quantity, den |-> 100]
  ELSE [num |-> raw_price * h.quantity, den |-> 1]

\* the value a summary puts on holding h when the lookups return market
ValueIn(h, market, usd_rate) ==
  IF market[h.asset_symbol] = {} THEN CostOf(h)
  ELSE ValueAt(h, CHOOSE x \in market[h.asset_symbol] : TRUE, usd_rate)

\* C20: a portfolio summary of a registered user is answered whatever the
\* price lookups return; it lists each holding once; a holding whose lookup
\* failed is reported at average buy price * quantity with profit/loss 0 and
\* profit/loss percent 0, and every other holding at its own quote *
\* quantity, each amount to the nearest hundredth.
C20_SummaryFallback ==
  \A t \in Threads :
    Summarised(t) =>
      /\ resp[t].code = 200
      /\ {e.id : e \in resp[t].holdings} = {h.id : h \in pre[t].holdings}
      /\ \A e \in resp[t].holdings : \A h \in pre[t].holdings :
           e.id = h.id =>
             IF resp[t].market[h.asset_symbol] = {}
             THEN /\ Nearest(e.current_value, CostOf(h))
                  /\ e.profit_loss = 0
                  /\ e.profit_loss_percent = 0
             ELSE \E x \in resp[t].market[h.asset_symbol] :
                    Nearest(e.current_value, ValueAt(h, x, resp[t].usd_rate))

\* a summary of two holdings: the lookup of one failed and the other was
\* valued from its quote, at a profit
C20_Witness ==
  \E t \in Threads :
    /\ Summarised(t)
    /\ \E e, f \in resp[t].holdings :
         /\ resp[t].market[e.asset_symbol] = {}
         /\ e.current_value > 0
         /\ resp[t].market[f.asset_symbol] # {}
         /\ f.profit_loss > 0

\* C21: a portfolio summary leaves the user's Portfolio rows, cash,
\* holdings and ledger as they were when the request arrived.
C21_SummaryReadOnly ==
  \A t \in Threads : Summarised(t) => pre[t] = Snapshot(UserOf(t))

\* the sum of the values a summary puts on the holdings hs
RECURSIVE SumOfValues(_, _, _)
SumOfValues(hs, market, usd_rate) ==
  IF hs = {} THEN FracOfInt(0)
  ELSE LET h == CHOOSE x \in hs : TRUE IN
       FracPlus(ValueIn(h, market, usd_rate),
                SumOfValues(hs \ {h}, market, usd_rate))

\* C22: in a portfolio summary, whatever the order in which the price
\* lookups completed, each holding's current value is the quote of its own
\* symbol (or, failing that, its average buy price) * quantity, its
\* profit/loss is that value - average buy price * quantity, and the total
\* is the cash + the sum of those values; each reported amount is the
\* amount so computed, to the nearest hundredth.
C22_SummaryValuation ==
  \A t \in Threads :
    Summarised(t) =>
      LET market == resp[t].market
          rate == resp[t].usd_rate
          sum == SumOfValues(pre[t].holdings, market, rate)
      IN
      /\ \A e \in resp[t].holdings : \A h \in pre[t].holdings :
           e.id = h.id =>
             LET value == ValueIn(h, market, rate) IN
             /\ Nearest(e.current_value, value)
             /\ Nearest(e.profit_loss, FracMinus(value, CostOf(h)))
      /\ Nearest(resp[t].total_holdings_value, sum)
      /\ Nearest(resp[t].total_portfolio_value,
                 FracPlus(FracOfInt(CashIn(pre[t])), sum))

\* a summary of two holdings quoted differently, whose lookups completed in
\* the reverse of the order in which they were started, one of the values
\* being rounded in the response
C22_Witness ==
  \E t \in Threads :
    /\ Summarised(t)
    /\ resp[t].order = << 2, 1 >>
    /\ \E e, f \in resp[t].holdings :
         /\ e.id < f.id
         /\ resp[t].market[e.asset_symbol] = {20000}
         /\ resp[t].market[f.asset_symbol] = {20002}
    /\ \E h \in pre[t].holdings :
         Frac(ValueIn(h, resp[t].market, resp[t].usd_rate).num,
              ValueIn(h, resp[t].market, resp[t].usd_rate).den).den # 1

\* thread t has answered a transaction history
Listed(t) == Answered(t) /\ req[t].kind = "history"

\* C23: the history of a user lists each Transaction row of that user once
\* and no other row, with the row's symbol, type and quantity, a row coming
\* before every row with an older timestamp; a symbol's rows are listed
\* whether or not the symbol is still held.
C23_HistoryNewestFirst ==
  \A t \in Threads :
    Listed(t) =>
      LET h == resp[t].history
          mine == {i \in 1..Len(transactions) :
                     transactions[i].user_id = UserOf(t)}
      IN
      /\ resp[t].code = 200
      /\ {h[k].id : k \in 1..Len(h)} = mine
      /\ Len(h) = Cardinality(mine)
      /\ \A k \in 1..Len(h) :
           /\ h[k].symbol = transactions[h[k].id].symbol
           /\ h[k].type = transactions[h[k].id].type
           /\ h[k].quantity = transactions[h[k].id].quantity
      /\ \A j, k \in 1..Len(h) :
           transactions[h[j].id].timestamp > transactions[h[k].id].timestamp
             => j < k

\* a position was bought and, a minute or more later, sold whole: the
\* history lists the sell before the buy, and the symbol is no longer held
C23_Witness ==
  \E t \in Threads :
    /\ Listed(t)
    /\ Len(resp[t].history) = 2
    /\ resp[t].history[1].type = "SELL"
    /\ resp[t].history[2].type = "BUY"
    /\ resp[t].history[1].timestamp # resp[t].history[2].timestamp
    /\ pre[t].holdings = {}

\* the rows stored for the users other than u
RowsOfOthers(u) ==
  [ portfolios |-> {p \in portfolios : p.user_id # u},
    holdings |-> {h \in holdings :
                    \E p \in portfolios : p.id = h.portfolio_id /\ p.user_id # u} ]

\* C24: the step that completes a reset leaves the user with one Portfolio
\* row, the one the user had when the request arrived if there was one, with
\* cash 100,000 and no Holding, and leaves the portfolios and holdings of
\* every other user as they were.
C24_ResetRestores ==
  [][ \A t \in Threads :
        (pc[t] = "reset_commit" /\ pc'[t] = "idle" /\ ~ interf[t]) =>
          LET u == UserOf(t) IN
          /\ resp'[t].code = 200
          /\ \E p \in portfolios' :
               /\ Snapshot(u)'.portfolios = {p}
               /\ p.virtual_cash = 10000000
               /\ \A o \in pre[t].portfolios : o.id = p.id
          /\ Snapshot(u)'.holdings = {}
          /\ RowsOfOthers(u)' = RowsOfOthers(u)
    ]_vars

\* a reset was answered for a user who held a position paid from the cash
C24_Witness ==
  \E t \in Threads :
    /\ Answered(t)
    /\ resp[t].detail = "reset"
    /\ pre[t].holdings # {}
    /\ CashIn(pre[t]) < STARTING_CASH
    /\ Snapshot(UserOf(t)).holdings = {}
    /\ CashIn(Snapshot(UserOf(t))) = STARTING_CASH

\* C25: no user ever has two Portfolio rows, whichever requests interleave;
\* a Portfolio row comes into being with cash 100,000 and without Holdings.
C25_OnePortfolioPerUser ==
  /\ [](\A p, q \in portfolios : p.user_id = q.user_id => p = q)
  /\ [][ \A p \in portfolios' :
           (\A o \in portfolios : o.id # p.id) =>
             /\ p.virtual_cash = 10000000
             /\ \A h \in holdings' : h.portfolio_id # p.id
       ]_vars

\* two first accesses of one user interleaved: both found no portfolio, one
\* created it and was answered, the other was refused by the database
C25_Witness ==
  \E t, o \in Threads :
    /\ resp[t].detail = "integrity_error"
    /\ resp[o].code = 200
    /\ req[t].email = req[o].email
    /\ req[t].kind # req[o].kind
    /\ Cardinality(Snapshot(UserOf(o)).portfolios) = 1
    /\ pre[t].portfolios = {} /\ pre[o].portfolios = {}

\* a and b are the same text but for the case of their letters
SameButCase(a, b) ==
  /\ Len(a) = Len(b)
  /\ \A i \in 1..Len(a) :
       \/ a[i] = b[i]
       \/ \E k \in 1..26 : {a[i], b[i]} = {LOWER[k], UPPER[k]}

\* a and b are the same text but for the case of their letters and the
\* blanks around them
SameSymbol(a, b) ==
  \E i, j \in 1..Len(a), k, l \in 1..Len(b) :
    /\ \A x \in (1..Len(a)) \ (i..j) : a[x] = " "
    /\ \A x \in (1..Len(b)) \ (k..l) : b[x] = " "
    /\ SameButCase(SubSeq(a, i, j), SubSeq(b, k, l))

\* s has no lower-case letter and no blank around it
UpperCase(s) ==
  /\ \A i \in 1..Len(s) : \A k \in 1..26 : s[i] # LOWER[k]
  /\ s # <<>> => (s[1] # " " /\ s[Len(s)] # " ")

\* C26: every stored Holding symbol and Transaction symbol is upper case;
\* a portfolio has one Holding for all the spellings of a symbol that
\* differ in case or in surrounding blanks, and an executed order, however
\* its symbol was spelled, has bought into or sold from that Holding.
C26_SymbolsCaseInsensitive ==
  /\ \A h \in holdings : UpperCase(h.asset_symbol)
  /\ \A i \in 1..Len(transactions) : UpperCase(transactions[i].symbol)
  /\ \A g, h \in holdings :
       (g.portfolio_id = h.portfolio_id
          /\ SameSymbol(g.asset_symbol, h.asset_symbol)) => g = h
  /\ \A t \in Threads :
       /\ Executed(t, "buy") =>
            \E h \in Snapshot(UserOf(t)).holdings :
              /\ SameSymbol(h.asset_symbol, req[t].symbol_in)
              /\ LastRow(UserOf(t)).symbol = h.asset_symbol
              /\ \A o \in pre[t].holdings :
                   SameSymbol(o.asset_symbol, req[t].symbol_in)
                     => (h.id = o.id /\ h.quantity = o.quantity + req[t].quantity)
       /\ Executed(t, "sell") =>
            \E o \in pre[t].holdings :
              /\ SameSymbol(o.asset_symbol, req[t].symbol_in)
              /\ LastRow(UserOf(t)).symbol = o.asset_symbol
              /\ \A h \in Snapshot(UserOf(t)).holdings :
                   h.id = o.id => h.quantity = o.quantity - req[t].quantity

\* a position bought under one spelling of the symbol was sold under
\* another, neither of them the upper-case one
C26_Witness ==
  /\ Executed("t2", "sell")
  /\ req["t1"].kind = "buy" /\ resp["t1"].detail = "executed"
  /\ req["t1"].symbol_in # req["t2"].symbol_in
  /\ ~ UpperCase(req["t1"].symbol_in)
  /\ ~ UpperCase(req["t2"].symbol_in)
  /\ Len(transactions) = 2
  /\ transactions[1].symbol = transactions[2].symbol
  /\ holdings = {}

\* the stored password is a bcrypt hash of password, and not password itself
HashOf(stored, password) ==
  /\ stored # << password >>
  /\ Len(stored) = 3
  /\ stored[1] = "$2b$"
  /\ Verify(password, stored)

\* C27: after a signup or a login that succeeded, the user's stored
\* password is a bcrypt hash of the password of the request, and a stored
\* password that is a bcrypt hash is never replaced by a text that is not.
C27_NoPlaintextAfterAuth ==
  /\ [](\A t \in Threads :
          (req[t].kind \in {"signup", "login"} /\ resp[t].code = 200 /\ ~ interf[t])
            => /\ req[t].email \in DOMAIN accounts
               /\ HashOf(accounts[req[t].email], req[t].password))
  /\ [][ \A e \in DOMAIN accounts :
           (\E p \in Passwords : HashOf(accounts[e], p))
             => (e \in DOMAIN accounts'
                   /\ \E p \in Passwords : HashOf(accounts'[e], p))
       ]_vars

\* the user whose password was stored as plaintext has logged in with it
C27_Witness ==
  \E t \in Threads :
    /\ req[t].kind = "login"
    /\ resp[t].code = 200
    /\ LegacyAccounts[req[t].email] = << req[t].password >>
    /\ accounts[req[t].email] # LegacyAccounts[req[t].email]

\* the names of the steps thread t's order has run, in the order they ran
StepNames(t) == [i \in 1..Len(steps[t]) |-> steps[t][i].step]

IsPrefix(a, b) == Len(a) <= Len(b) /\ \A i \in 1..Len(a) : a[i] = b[i]

IsOrder(t) == req[t].kind \in {"buy", "sell"}

\* the order of thread t consulted the calendar at an instant the market of
\* its symbol was open
GatePassed(t) ==
  /\ steps[t] # <<>>
  /\ steps[t][1].step = "calendar"
  /\ (DomesticSuffix(req[t].symbol) /\ ~ CryptoMarker(req[t].symbol))
       => InWindow(steps[t][1].at)

\* the order of thread t has looked up a quote or an exchange rate
LookedUp(t) ==
  \/ \E i \in 1..Len(steps[t]) : steps[t][i].step \in {"quote", "conversion"}
  \/ \E i \in 1..Len(fx_log) : fx_log[i].n_req = nreq

\* C28 as stated: the steps of every order, buy or sell, run in the order
\* calendar gate, quote lookup, currency conversion, funds/position check,
\* commit.
C28_CheckAfterQuote ==
  \A t \in Threads :
    IsOrder(t) =>
      IsPrefix(StepNames(t), << "calendar", "quote", "conversion", "check", "commit" >>)

\* C28, amended: the steps of a buy run in the order calendar gate, quote
\* lookup, currency conversion, funds check, commit; those of a sell in the
\* order calendar gate, position check, quote lookup, currency conversion,
\* commit; an order looks up a quote or an exchange rate only when its gate
\* found the market open, and an order turned away by the gate ran no other
\* step.
C28_StepsInOrder ==
  \A t \in Threads :
    IsOrder(t) =>
      /\ req[t].kind = "buy" =>
            IsPrefix(StepNames(t),
                     << "calendar", "quote", "conversion", "check", "commit" >>)
      /\ req[t].kind = "sell" =>
            IsPrefix(StepNames(t),
                     << "calendar", "check", "quote", "conversion", "commit" >>)
      /\ LookedUp(t) => GatePassed(t)
      /\ (Answered(t) /\ resp[t].detail = "market_closed")
            => /\ StepNames(t) = << "calendar" >>
               /\ ~ InWindow(steps[t][1].at)

\* a sell of a domestic stock has run all its steps, the quote lookup after
\* the position check
C28_Witness ==
  \E t \in Threads :
    /\ req[t].kind = "sell"
    /\ DomesticSuffix(req[t].symbol)
    /\ resp[t].detail = "executed"
    /\ StepNames(t) = << "calendar", "check", "quote", "conversion", "commit" >>

\* the sum of the BUY quantities minus the sum of the SELL quantities of
\* user u's rows for symbol s
RECURSIVE NetQuantity(_, _, _)
NetQuantity(rows, u, s) ==
  IF rows = <<>> THEN 0
  ELSE LET r == Head(rows) IN
       (IF r.user_id # u \/ r.symbol # s THEN 0
        ELSE IF r.type = "BUY" THEN r.quantity ELSE - r.quantity)
       + NetQuantity(Tail(rows), u, s)

\* C29: when every order is completed and no reset was made, the quantity
\* of a user's Holding of a symbol is the sum of the BUY quantities minus
\* the sum of the SELL quantities of the user's ledger rows for the symbol,
\* and the user has no Holding of a symbol for which that sum is zero.
C29_LedgerMatchesHoldings ==
  Quiescent =>
    \A p \in portfolios, s \in ParSymbols :
      LET rows == {h \in holdings : h.portfolio_id = p.id /\ h.asset_symbol = s}
          net == NetQuantity(transactions, p.user_id, s)
      IN /\ rows = {} => net = 0
         /\ \A h \in rows : h.quantity = net

\* C30: the cache holds the rate and the instant of the last call of the
\* exchange-rate API that succeeded, or its initial content when none has:
\* a call that failed changed neither; and the lookup that follows one
\* whose call failed is not served from the cache.
C30_FailedRefreshKeepsCache ==
  /\ usd_inr_cache =
       IF LastLive(Len(fx_log)) = {}
       THEN [rate |-> 8750, timestamp |-> NONE]
       ELSE LET e == CHOOSE x \in LastLive(Len(fx_log)) : TRUE IN
            [rate |-> e.rate, timestamp |-> e.at]
  /\ \A i \in 1..(Len(fx_log) - 1) :
       fx_log[i].source = "fallback" => fx_log[i + 1].source # "cached"

\* a call failed after one had succeeded, and the next lookup called again
C30_Witness ==
  \E i \in 1..(Len(fx_log) - 2) :
    /\ fx_log[i].source = "live"
    /\ fx_log[i + 1].source = "fallback"
    /\ fx_log[i + 2].source \in {"live", "fallback"}
    /\ usd_inr_cache.timestamp # NONE

====
